---- MODULE Spec2Model ----
(***************************************************************************)
(* The binary message protocol of the streaming speech-synthesis client:   *)
(* the codec (marshalMessage / unmarshalMessage), the per-socket message   *)
(* queue (setupMessageHandler / ReceiveMessage / WaitForEvent), the send   *)
(* helpers and the streaming consumption loop.                             *)
(*                                                                         *)
(* Conventions.  A byte string (Uint8Array) is a sequence of 0..255.  A    *)
(* JavaScript string is the sequence of its code points.  An optional      *)
(* field is <<>> when undefined and <<v>> when it holds v.  A uint32 that  *)
(* is read from or written to the wire is the pair <<hi, lo>> of its two   *)
(* 16-bit halves (value hi * 65536 + lo), so that all 32 bits are kept.    *)
(***************************************************************************)
EXTENDS Integers, Sequences, FiniteSets, TLC

VARIABLES
  \* ---- codec harness: one Message through marshal / cut / unmarshal
  cpc,        \* "msg" | "encoded" | "cut" | "decoded" | "threw"
  cmsg,       \* the Message handed to marshalMessage
  cbuf,       \* the bytes marshalMessage returned, or a prefix of them
  cfull,      \* the bytes marshalMessage returned, kept when cbuf is cut
  cres,       \* what unmarshalMessage(cbuf) returned or threw
  \* ---- one WebSocket and its entries in messageQueues / messageCallbacks
  wsOpen,     \* the socket has not emitted 'close'
  installed,  \* messageQueues.has(ws): the 'message' listener is attached
  queue,      \* messageQueues.get(ws): decoded, undelivered Messages
  callbacks,  \* messageCallbacks.get(ws): ids of the calls whose resolver waits
  orphaned,   \* resolvers in a callbacks array that 'close' dropped from the map
  errListeners, \* ids of the calls whose errorHandler is a 'error' listener
  calls,      \* one record per ReceiveMessage call, in call order
  arrived,    \* every frame the socket emitted as 'message', in order (history)
  thrown,     \* what the 'message' listener threw, one entry per throw (history)
  errors,     \* number of 'error' events the socket emitted (history)
  \* ---- callers
  waits,      \* one record per WaitForEvent call
  sent,       \* what the send helpers handed to ws.send, in order
  sendPc,     \* "idle" | "writing": a send helper waits for the write callback
  sendLog,    \* how the promise of each send helper call settled, in order
  writeLog,   \* what each write callback was passed and what it rejected with
  lpc,        \* the streaming loop's position
  lcall,      \* id of the loop's current ReceiveMessage call (0: none)
  audioChunks,\* the loop's audio buffer: a sequence of payloads
  lreads,     \* number of ReceiveMessage calls the loop has made
  lresult,    \* what the synthesis returned or threw
  closeCalls, \* number of ws.close() calls the synthesis has made
  \* ---- two WebSockets and the two Maps keyed by socket
  messageQueues,    \* socket -> its queue, if the Map has the key
  messageCallbacks, \* socket -> its waiter list (call ids), if the Map has the key
  pairOpen,         \* the sockets that have not emitted 'close'
  pairListeners,    \* ids of the calls whose errorHandler is an 'error' listener
  pairCalls,        \* one record per ReceiveMessage call on either socket
  pairArrived,      \* every [ws, frame] emitted as 'message', in order (history)
  pairEvent,        \* the socket and kind of the last step (history)
  \* ---- synthesizeDialogue
  dialogue,   \* the dialogue items handed to synthesizeDialogue
  dpc,        \* "idle" | "loop" | "synth" | "delay" | "returned" | "threw"
  di,         \* the loop index i
  segments,   \* the segments pushed so far
  synths,     \* one record per synthesizeSingle call, in call order
  dresult     \* the segment list synthesizeDialogue returned, if it returned

vars == << cpc, cmsg, cbuf, cfull, cres,
           wsOpen, installed, queue, callbacks, orphaned, errListeners, calls,
           arrived, thrown, errors,
           waits, sent, sendPc, sendLog, writeLog,
           lpc, lcall, audioChunks, lreads, lresult, closeCalls,
           messageQueues, messageCallbacks, pairOpen, pairListeners, pairCalls,
           pairArrived, pairEvent,
           dialogue, dpc, di, segments, synths, dresult >>

codecVars == << cpc, cmsg, cbuf, cfull, cres >>
demuxVars == << wsOpen, installed, queue, callbacks, orphaned, errListeners,
                calls, arrived, thrown, errors >>
waitVars  == << waits >>
sendVars  == << sent, sendPc, sendLog, writeLog >>
loopVars  == << lpc, lcall, audioChunks, lreads, lresult, closeCalls >>
pairVars  == << messageQueues, messageCallbacks, pairOpen, pairListeners,
                pairCalls, pairArrived, pairEvent >>
dialogueVars == << dialogue, dpc, di, segments, synths, dresult >>

-----------------------------------------------------------------------------
(* Optional values *)
Undefined == <<>>
Def(x) == <<x>>
IsDef(o) == Len(o) = 1
Val(o) == o[1]

-----------------------------------------------------------------------------
(* enum EventType (the members the protocol core uses) *)
EventType_None == 0
EventType_StartConnection == 1
EventType_FinishConnection == 2
EventType_ConnectionStarted == 50
EventType_ConnectionFailed == 51
EventType_ConnectionFinished == 52
EventType_StartSession == 100
EventType_CancelSession == 101
EventType_FinishSession == 102
EventType_SessionStarted == 150
EventType_SessionCanceled == 151
EventType_SessionFinished == 152
EventType_SessionFailed == 153
EventType_TaskRequest == 200
EventType_TTSResponse == 352

(* enum MsgType *)
MsgType_Invalid == 0
MsgType_FullClientRequest == 1
MsgType_AudioOnlyClient == 2
MsgType_FullServerResponse == 9
MsgType_AudioOnlyServer == 11
MsgType_FrontEndResultServer == 12
MsgType_Error == 15

(* enum MsgTypeFlagBits *)
MsgTypeFlagBits_NoSeq == 0
MsgTypeFlagBits_PositiveSeq == 1
MsgTypeFlagBits_LastNoSeq == 2
MsgTypeFlagBits_NegativeSeq == 3
MsgTypeFlagBits_WithEvent == 4

(* enums VersionBits, HeaderSizeBits, SerializationBits, CompressionBits *)
VersionBits_Version1 == 1
HeaderSizeBits_HeaderSize4 == 1
HeaderSizeBits_HeaderSize8 == 2
SerializationBits_JSON == 1
CompressionBits_None == 0

\* EventType[eventType] || `invalid event type: ${eventType}`
getEventTypeName(eventType) ==
  CASE eventType = EventType_None -> "None"
    [] eventType = EventType_StartConnection -> "StartConnection"
    [] eventType = EventType_FinishConnection -> "FinishConnection"
    [] eventType = EventType_ConnectionStarted -> "ConnectionStarted"
    [] eventType = EventType_ConnectionFailed -> "ConnectionFailed"
    [] eventType = EventType_ConnectionFinished -> "ConnectionFinished"
    [] eventType = EventType_StartSession -> "StartSession"
    [] eventType = EventType_CancelSession -> "CancelSession"
    [] eventType = EventType_FinishSession -> "FinishSession"
    [] eventType = EventType_SessionStarted -> "SessionStarted"
    [] eventType = EventType_SessionCanceled -> "SessionCanceled"
    [] eventType = EventType_SessionFinished -> "SessionFinished"
    [] eventType = EventType_SessionFailed -> "SessionFailed"
    [] eventType = EventType_TaskRequest -> "TaskRequest"
    [] eventType = EventType_TTSResponse -> "TTSResponse"
    [] OTHER -> "invalid event type"

\* MsgType[msgType] || `invalid message type: ${msgType}`
getMsgTypeName(msgType) ==
  CASE msgType = MsgType_Invalid -> "Invalid"
    [] msgType = MsgType_FullClientRequest -> "FullClientRequest"
    [] msgType = MsgType_AudioOnlyClient -> "AudioOnlyClient"
    [] msgType = MsgType_FullServerResponse -> "FullServerResponse"
    [] msgType = MsgType_AudioOnlyServer -> "AudioOnlyServer"
    [] msgType = MsgType_FrontEndResultServer -> "FrontEndResultServer"
    [] msgType = MsgType_Error -> "Error"
    [] OTHER -> "invalid message type"

-----------------------------------------------------------------------------
(* Big-endian integers (DataView.setInt32 / getInt32 / setUint32 / getUint32) *)

\* DataView.setInt32(0, x, false), x in -2^31 .. 2^31-1
setInt32(x) ==
  << (x \div 16777216) % 256, (x \div 65536) % 256, (x \div 256) % 256, x % 256 >>

\* a read of the same 4 bytes with the least significant byte first
getInt32LittleEndian(data, off) ==
  LET b3 == data[off + 4] IN
  (IF b3 >= 128 THEN b3 - 256 ELSE b3) * 16777216
    + data[off + 3] * 65536 + data[off + 2] * 256 + data[off + 1]

\* DataView.getInt32(0, false) on the 4 bytes at offset off (0-based)
getInt32(data, off) ==
  LET b0 == data[off + 1] IN
  (IF b0 >= 128 THEN b0 - 256 ELSE b0) * 16777216
    + data[off + 2] * 65536 + data[off + 3] * 256 + data[off + 4]

\* a uint32 as the pair of its 16-bit halves
U32(n) == << n \div 65536, n % 65536 >>

\* DataView.setUint32(0, v, false)
setUint32(v) == << v[1] \div 256, v[1] % 256, v[2] \div 256, v[2] % 256 >>

\* DataView.getUint32(0, false) on the 4 bytes at offset off (0-based)
getUint32(data, off) ==
  << data[off + 1] * 256 + data[off + 2], data[off + 3] * 256 + data[off + 4] >>

\* offset + size > data.length, for a uint32 size and a buffer under 65536 bytes
PastEnd(off, size, data) == size[1] > 0 \/ off + size[2] > Len(data)

\* data.slice(off, off + n)
slice(data, off, n) == SubSeq(data, off + 1, off + n)

-----------------------------------------------------------------------------
(* UTF-8: Buffer.from(str, 'utf8') and new TextDecoder().decode(bytes) *)

\* the bytes of one code point; a lone surrogate is written as U+FFFD
Utf8OfCodePoint(cp) ==
  IF cp < 128 THEN << cp >>
  ELSE IF cp < 2048 THEN << 192 + (cp \div 64), 128 + (cp % 64) >>
  ELSE IF cp >= 55296 /\ cp <= 57343 THEN << 239, 191, 189 >>
  ELSE IF cp < 65536
    THEN << 224 + (cp \div 4096), 128 + ((cp \div 64) % 64), 128 + (cp % 64) >>
  ELSE << 240 + (cp \div 262144), 128 + ((cp \div 4096) % 64),
          128 + ((cp \div 64) % 64), 128 + (cp % 64) >>

RECURSIVE Utf8Encode(_)
Utf8Encode(str) ==
  IF str = <<>> THEN <<>>
  ELSE Utf8OfCodePoint(Head(str)) \o Utf8Encode(Tail(str))

InRange(x, lo, hi) == x >= lo /\ x <= hi

\* the range a lead byte allows for the byte after it
SecondLo(lead) == IF lead = 224 THEN 160 ELSE IF lead = 240 THEN 144 ELSE 128
SecondHi(lead) == IF lead = 237 THEN 159 ELSE IF lead = 244 THEN 143 ELSE 191

\* the decoder's replacement of a malformed sequence
ReplacementChar == 65533
ByteOrderMark == 65279

\* code points of b from position i (1-based); a malformed sequence gives
\* one U+FFFD for its maximal valid prefix
RECURSIVE Utf8DecodeFrom(_, _)
Utf8DecodeFrom(b, i) ==
  LET n == Len(b)
      has(k) == i + k <= n
      cont(k) == has(k) /\ InRange(b[i + k], 128, 191)
      second == has(1) /\ InRange(b[i + 1], SecondLo(b[i]), SecondHi(b[i]))
  IN
  IF i > n THEN <<>>
  ELSE IF b[i] < 128 THEN << b[i] >> \o Utf8DecodeFrom(b, i + 1)
  ELSE IF InRange(b[i], 194, 223) THEN
    IF cont(1)
      THEN << (b[i] - 192) * 64 + (b[i + 1] - 128) >> \o Utf8DecodeFrom(b, i + 2)
      ELSE << ReplacementChar >> \o Utf8DecodeFrom(b, i + 1)
  ELSE IF InRange(b[i], 224, 239) THEN
    IF ~second THEN << ReplacementChar >> \o Utf8DecodeFrom(b, i + 1)
    ELSE IF ~cont(2) THEN << ReplacementChar >> \o Utf8DecodeFrom(b, i + 2)
    ELSE << (b[i] - 224) * 4096 + (b[i + 1] - 128) * 64 + (b[i + 2] - 128) >>
           \o Utf8DecodeFrom(b, i + 3)
  ELSE IF InRange(b[i], 240, 244) THEN
    IF ~second THEN << ReplacementChar >> \o Utf8DecodeFrom(b, i + 1)
    ELSE IF ~cont(2) THEN << ReplacementChar >> \o Utf8DecodeFrom(b, i + 2)
    ELSE IF ~cont(3) THEN << ReplacementChar >> \o Utf8DecodeFrom(b, i + 3)
    ELSE << (b[i] - 240) * 262144 + (b[i + 1] - 128) * 4096
              + (b[i + 2] - 128) * 64 + (b[i + 3] - 128) >>
           \o Utf8DecodeFrom(b, i + 4)
  ELSE << ReplacementChar >> \o Utf8DecodeFrom(b, i + 1)

\* new TextDecoder().decode(bytes): utf-8, not fatal, a leading BOM is dropped
TextDecode(bytes) ==
  LET cps == Utf8DecodeFrom(bytes, 1) IN
  IF cps # <<>> /\ Head(cps) = ByteOrderMark THEN Tail(cps) ELSE cps

-----------------------------------------------------------------------------
(* interface Message, createMessage *)

Message(version, headerSize, type, flag, serialization, compression, event, sessionId, connectId, sequence, errorCode, payload) ==
  [ version |-> version, headerSize |-> headerSize, type |-> type, flag |-> flag,
    serialization |-> serialization, compression |-> compression,
    event |-> event, sessionId |-> sessionId, connectId |-> connectId,
    sequence |-> sequence, errorCode |-> errorCode, payload |-> payload ]

createMessage(msgType, flag) ==
  Message(VersionBits_Version1, HeaderSizeBits_HeaderSize4, msgType, flag,
          SerializationBits_JSON, CompressionBits_None,
          Undefined, Undefined, Undefined, Undefined, Undefined, <<>>)

\* a dispatch that also takes the unassigned kind 3 for a content kind
ContentTypesAndThree ==
  { MsgType_AudioOnlyClient, MsgType_AudioOnlyServer, MsgType_FrontEndResultServer,
    MsgType_FullClientRequest, MsgType_FullServerResponse, 3 }

ContentTypes ==
  { MsgType_AudioOnlyClient, MsgType_AudioOnlyServer, MsgType_FrontEndResultServer,
    MsgType_FullClientRequest, MsgType_FullServerResponse }

SeqFlags == { MsgTypeFlagBits_PositiveSeq, MsgTypeFlagBits_NegativeSeq }

\* the events for which writeSessionId writes nothing
WriteSessionIdSkips ==
  { EventType_StartConnection, EventType_FinishConnection,
    EventType_ConnectionStarted, EventType_ConnectionFailed }

\* the events for which readSessionId reads nothing
ReadSessionIdSkips ==
  { EventType_StartConnection, EventType_FinishConnection,
    EventType_ConnectionStarted, EventType_ConnectionFailed,
    EventType_ConnectionFinished }

\* the events for which readConnectId reads a connect id
ReadConnectIdEvents ==
  { EventType_ConnectionStarted, EventType_ConnectionFailed,
    EventType_ConnectionFinished }

-----------------------------------------------------------------------------
(* Writers.  A writer returns its bytes; null (nothing pushed) is <<>>. *)

writeEvent(msg) ==
  IF ~IsDef(msg.event) THEN <<>> ELSE setInt32(Val(msg.event))

\* a writer that has no exclusion set
writeSessionIdAlways(msg) ==
  IF ~IsDef(msg.event) THEN <<>>
  ELSE LET sessionId == IF IsDef(msg.sessionId) THEN Val(msg.sessionId) ELSE <<>>
           sessionIdBytes == Utf8Encode(sessionId)
       IN setUint32(U32(Len(sessionIdBytes))) \o sessionIdBytes

writeSessionId(msg) ==
  IF ~IsDef(msg.event) THEN <<>>
  ELSE IF Val(msg.event) \in WriteSessionIdSkips THEN <<>>
  ELSE LET sessionId == IF IsDef(msg.sessionId) THEN Val(msg.sessionId) ELSE <<>>
           sessionIdBytes == Utf8Encode(sessionId)
       IN setUint32(U32(Len(sessionIdBytes))) \o sessionIdBytes

writeSequence(msg) ==
  IF ~IsDef(msg.sequence) THEN <<>> ELSE setInt32(Val(msg.sequence))

writeErrorCode(msg) ==
  IF ~IsDef(msg.errorCode) THEN <<>> ELSE setUint32(Val(msg.errorCode))

\* a writer that writes nothing for an empty payload
writePayloadIfAny(msg) ==
  IF Len(msg.payload) = 0 THEN <<>>
  ELSE setUint32(U32(Len(msg.payload))) \o msg.payload

writePayload(msg) ==
  setUint32(U32(Len(msg.payload))) \o msg.payload

\* a selection of the writers by the fields the caller set, not by the flag
getWritersByValue(msg) ==
  IF msg.type \notin ContentTypes \cup { MsgType_Error }
    THEN [ err |-> "unsupported message type", writers |-> <<>> ]
  ELSE [ err |-> "",
         writers |->
           (IF IsDef(msg.event) THEN << "writeEvent", "writeSessionId" >> ELSE <<>>)
           \o (IF msg.type = MsgType_Error THEN << "writeErrorCode" >>
               ELSE IF IsDef(msg.sequence) THEN << "writeSequence" >> ELSE <<>>)
           \o << "writePayload" >> ]

\* the writers of a message, in order; err is what getWriters throws
getWriters(msg) ==
  LET first == IF msg.flag = MsgTypeFlagBits_WithEvent
                 THEN << "writeEvent", "writeSessionId" >> ELSE <<>>
  IN
  IF msg.type \in ContentTypes
    THEN [ err |-> "",
           writers |-> first
             \o (IF msg.flag \in SeqFlags THEN << "writeSequence" >> ELSE <<>>)
             \o << "writePayload" >> ]
  ELSE IF msg.type = MsgType_Error
    THEN [ err |-> "",
           writers |-> first \o << "writeErrorCode" >> \o << "writePayload" >> ]
  ELSE [ err |-> "unsupported message type", writers |-> <<>> ]

RunWriter(writer, msg) ==
  CASE writer = "writeEvent" -> writeEvent(msg)
    [] writer = "writeSessionId" -> writeSessionId(msg)
    [] writer = "writeSequence" -> writeSequence(msg)
    [] writer = "writeErrorCode" -> writeErrorCode(msg)
    [] writer = "writePayload" -> writePayload(msg)

RECURSIVE RunWriters(_, _)
RunWriters(writers, msg) ==
  IF writers = <<>> THEN <<>>
  ELSE RunWriter(Head(writers), msg) \o RunWriters(Tail(writers), msg)

\* a header whose bytes pack their two fields the other way round
BaseHeaderSwapped(msg) ==
  [ i \in 1 .. 4 * msg.headerSize |->
      CASE i = 1 -> (msg.headerSize * 16 + msg.version) % 256
        [] i = 2 -> (msg.flag * 16 + msg.type) % 256
        [] i = 3 -> (msg.compression * 16 + msg.serialization) % 256
        [] OTHER -> 0 ]

\* the base header: a zeroed Uint8Array of 4 * headerSize bytes with bytes 0..2
\* set (a store past the end of a typed array is dropped)
BaseHeader(msg) ==
  [ i \in 1 .. 4 * msg.headerSize |->
      CASE i = 1 -> (msg.version * 16 + msg.headerSize) % 256
        [] i = 2 -> (msg.type * 16 + msg.flag) % 256
        [] i = 3 -> (msg.serialization * 16 + msg.compression) % 256
        [] OTHER -> 0 ]

\* marshalMessage: [err, bytes]; err is "" when it returns
marshalMessage(msg) ==
  LET w == getWriters(msg) IN
  IF w.err # "" THEN [ err |-> w.err, bytes |-> <<>> ]
  ELSE [ err |-> "", bytes |-> BaseHeader(msg) \o RunWriters(w.writers, msg) ]

-----------------------------------------------------------------------------
(* Readers.  A reader takes the message so far, the data and the offset and  *)
(* returns [msg, off, err]; err is what it throws ("" when it returns).     *)

Read(msg, off) == [ msg |-> msg, off |-> off, err |-> "" ]
Throw(msg, off, err) == [ msg |-> msg, off |-> off, err |-> err ]

readEvent(msg, data, offset) ==
  IF offset + 4 > Len(data) THEN Throw(msg, offset, "insufficient data for event")
  ELSE Read([msg EXCEPT !.event = Def(getInt32(data, offset))], offset + 4)

readSessionId(msg, data, offset) ==
  IF ~IsDef(msg.event) THEN Read(msg, offset)
  ELSE IF Val(msg.event) \in ReadSessionIdSkips THEN Read(msg, offset)
  ELSE IF offset + 4 > Len(data)
    THEN Throw(msg, offset, "insufficient data for session ID size")
  ELSE LET size == getUint32(data, offset) IN
    IF size = U32(0) THEN Read(msg, offset + 4)
    ELSE IF PastEnd(offset + 4, size, data)
      THEN Throw(msg, offset + 4, "insufficient data for session ID")
    ELSE Read([msg EXCEPT !.sessionId =
                 Def(TextDecode(slice(data, offset + 4, size[2])))],
              offset + 4 + size[2])

readConnectId(msg, data, offset) ==
  IF ~IsDef(msg.event) THEN Read(msg, offset)
  ELSE IF Val(msg.event) \notin ReadConnectIdEvents THEN Read(msg, offset)
  ELSE IF offset + 4 > Len(data)
    THEN Throw(msg, offset, "insufficient data for connect ID size")
  ELSE LET size == getUint32(data, offset) IN
    IF size = U32(0) THEN Read(msg, offset + 4)
    ELSE IF PastEnd(offset + 4, size, data)
      THEN Throw(msg, offset + 4, "insufficient data for connect ID")
    ELSE Read([msg EXCEPT !.connectId =
                 Def(TextDecode(slice(data, offset + 4, size[2])))],
              offset + 4 + size[2])

\* a reader that leaves the offset where it was
readSequencePeek(msg, data, offset) ==
  IF offset + 4 > Len(data) THEN Throw(msg, offset, "insufficient data for sequence")
  ELSE Read([msg EXCEPT !.sequence = Def(getInt32(data, offset))], offset)

readSequence(msg, data, offset) ==
  IF offset + 4 > Len(data) THEN Throw(msg, offset, "insufficient data for sequence")
  ELSE Read([msg EXCEPT !.sequence = Def(getInt32(data, offset))], offset + 4)

readErrorCode(msg, data, offset) ==
  IF offset + 4 > Len(data)
    THEN Throw(msg, offset, "insufficient data for error code")
  ELSE Read([msg EXCEPT !.errorCode = Def(getUint32(data, offset))], offset + 4)

readPayload(msg, data, offset) ==
  IF offset + 4 > Len(data)
    THEN Throw(msg, offset, "insufficient data for payload size")
  ELSE LET size == getUint32(data, offset) IN
    IF size = U32(0) THEN Read(msg, offset + 4)
    ELSE IF PastEnd(offset + 4, size, data)
      THEN Throw(msg, offset + 4, "insufficient data for payload")
    ELSE Read([msg EXCEPT !.payload = slice(data, offset + 4, size[2])],
              offset + 4 + size[2])

\* the readers of a message, in order; err is what getReaders throws
getReaders(msg) ==
  LET last == (IF msg.flag = MsgTypeFlagBits_WithEvent
                 THEN << "readEvent", "readSessionId", "readConnectId" >>
                 ELSE <<>>) \o << "readPayload" >>
  IN
  IF msg.type \in ContentTypes
    THEN [ err |-> "",
           readers |-> (IF msg.flag \in SeqFlags THEN << "readSequence" >> ELSE <<>>)
                         \o last ]
  ELSE IF msg.type = MsgType_Error
    THEN [ err |-> "", readers |-> << "readErrorCode" >> \o last ]
  ELSE [ err |-> "unsupported message type", readers |-> <<>> ]

RunReader(reader, msg, data, offset) ==
  CASE reader = "readEvent" -> readEvent(msg, data, offset)
    [] reader = "readSessionId" -> readSessionId(msg, data, offset)
    [] reader = "readConnectId" -> readConnectId(msg, data, offset)
    [] reader = "readSequence" -> readSequence(msg, data, offset)
    [] reader = "readErrorCode" -> readErrorCode(msg, data, offset)
    [] reader = "readPayload" -> readPayload(msg, data, offset)

\* for (const reader of readers) offset = reader(msg, data, offset)
RECURSIVE RunReaders(_, _, _)
RunReaders(readers, st, data) ==
  IF readers = <<>> \/ st.err # "" THEN st
  ELSE RunReaders(Tail(readers), RunReader(Head(readers), st.msg, data, st.off), data)

\* the message unmarshalMessage builds from the three header bytes
HeaderMessage(data) ==
  Message(data[1] \div 16, data[1] % 16, data[2] \div 16, data[2] % 16,
          data[3] \div 16, data[3] % 16,
          Undefined, Undefined, Undefined, Undefined, Undefined, <<>>)

\* a decoder that takes every header for 4 bytes long
FixedHeaderOffset(msg) == 4

\* offset = 4 * msg.headerSize: where the readers start
FirstFieldOffset(msg) == 4 * msg.headerSize

\* a length check that wants the whole of a 4-byte header
TooShortForFour(data) == Len(data) < 4

\* if (data.length < 3)
TooShort(data) == Len(data) < 3

\* a decoder that reports the bytes left after the last field as an error
returnChecksLength(st, data) ==
  IF st.err = "" /\ st.off < Len(data) THEN Throw(st.msg, st.off, "trailing data")
  ELSE st

\* return msg: the offset the readers reached is not compared with
\* data.length
returnMsg(st, data) == st

\* unmarshalMessage: [err, msg, off]; err is "" when it returns msg, and off
\* is the offset after the last byte read
unmarshalMessage(data) ==
  IF TooShort(data)
    THEN [ err |-> "data too short", msg |-> Undefined, off |-> 0 ]
  ELSE
    LET msg == HeaderMessage(data)
        r == getReaders(msg)
    IN
    IF r.err # "" THEN [ err |-> r.err, msg |-> Undefined, off |-> 3 ]
    ELSE LET st == returnMsg(RunReaders(r.readers,
                                        Read(msg, FirstFieldOffset(msg)), data),
                             data) IN
      IF st.err # "" THEN [ err |-> st.err, msg |-> Undefined, off |-> st.off ]
      ELSE [ err |-> "", msg |-> Def(st.msg), off |-> st.off ]

-----------------------------------------------------------------------------
(* The messages a caller hands to marshalMessage: every combination the     *)
(* presence rules permit over the sample values below, and one message of   *)
(* the kind Invalid.                                                        *)

SampleEvents ==
  { EventType_StartConnection, EventType_ConnectionStarted,
    EventType_ConnectionFinished, EventType_StartSession, EventType_SessionFailed }

\* "", "a", "abc", and the one-character string U+0000
SampleStrings == { <<>>, << 97 >>, << 97, 98, 99 >>, << 0 >> }

SampleSequences == { 5, -1 }

\* 4, and 2^31 + 1
SampleErrorCodes == { U32(4), << 32768, 1 >> }

\* empty, "{}", and five bytes of binary data
SamplePayloads == { <<>>, << 123, 125 >>, << 0, 0, 0, 0, 1 >> }

SampleHeaderSizes == { HeaderSizeBits_HeaderSize4, HeaderSizeBits_HeaderSize8 }

SampleFlags ==
  { MsgTypeFlagBits_NoSeq, MsgTypeFlagBits_PositiveSeq, MsgTypeFlagBits_LastNoSeq,
    MsgTypeFlagBits_NegativeSeq, MsgTypeFlagBits_WithEvent }

KnownTypes == ContentTypes \cup { MsgType_Error }

\* the optional fields a message of this kind, flag and event carries
EventsFor(flag) ==
  IF flag = MsgTypeFlagBits_WithEvent
    THEN { Def(e) : e \in SampleEvents } ELSE { Undefined }

SessionIdsFor(flag, event) ==
  IF flag = MsgTypeFlagBits_WithEvent /\ Val(event) \notin WriteSessionIdSkips
    THEN { Def(s) : s \in SampleStrings } ELSE { Undefined }

SequencesFor(type, flag) ==
  IF type \in ContentTypes /\ flag \in SeqFlags
    THEN { Def(n) : n \in SampleSequences } ELSE { Undefined }

ErrorCodesFor(type) ==
  IF type = MsgType_Error THEN { Def(c) : c \in SampleErrorCodes } ELSE { Undefined }

PermittedMessages ==
  UNION { UNION { UNION {
    { Message(VersionBits_Version1, hs, type, flag,
              SerializationBits_JSON, CompressionBits_None,
              event, sessionId, Undefined, sequence, errorCode, payload) :
        sessionId \in SessionIdsFor(flag, event),
        sequence \in SequencesFor(type, flag),
        errorCode \in ErrorCodesFor(type),
        payload \in SamplePayloads,
        hs \in SampleHeaderSizes }
    : event \in EventsFor(flag) } : flag \in SampleFlags } : type \in KnownTypes }

InvalidKindMessage == createMessage(MsgType_Invalid, MsgTypeFlagBits_NoSeq)

CodecMessages == PermittedMessages \cup { InvalidKindMessage }

-----------------------------------------------------------------------------
(* Codec harness: marshal one message, optionally cut the bytes to a proper *)
(* prefix, and unmarshal what is left.                                      *)

NoResult == [ err |-> "", msg |-> Undefined, off |-> 0 ]

CodecIdle ==
  /\ cpc = "idle" /\ cmsg = InvalidKindMessage
  /\ cbuf = <<>> /\ cfull = <<>> /\ cres = NoResult

DemuxIdle ==
  /\ wsOpen = TRUE /\ installed = FALSE
  /\ queue = <<>> /\ callbacks = <<>> /\ orphaned = <<>> /\ errListeners = <<>>
  /\ calls = <<>> /\ arrived = <<>> /\ thrown = <<>> /\ errors = 0

WaitIdle == waits = <<>>

SendIdle == sent = <<>> /\ sendPc = "idle" /\ sendLog = <<>> /\ writeLog = <<>>

\* two open sockets, neither a key of the Maps
Sockets == { "A", "B" }

PairIdle ==
  /\ messageQueues = [ ws \in Sockets |-> Undefined ]
  /\ messageCallbacks = [ ws \in Sockets |-> Undefined ]
  /\ pairOpen = Sockets /\ pairListeners = {}
  /\ pairCalls = <<>> /\ pairArrived = <<>>
  /\ pairEvent = [ ws |-> "", kind |-> "" ]

DialogueIdle ==
  /\ dialogue = <<>> /\ dpc = "idle" /\ di = 0
  /\ segments = <<>> /\ synths = <<>> /\ dresult = Undefined

LoopIdle ==
  /\ lpc = "idle" /\ lcall = 0 /\ audioChunks = <<>> /\ lreads = 0
  /\ lresult = [ st |-> "none", audio |-> <<>>, err |-> "" ]
  /\ closeCalls = 0

CodecInit ==
  /\ cpc = "msg" /\ cmsg \in CodecMessages
  /\ cbuf = <<>> /\ cfull = <<>> /\ cres = NoResult
  /\ DemuxIdle /\ WaitIdle /\ SendIdle /\ LoopIdle
  /\ PairIdle /\ DialogueIdle

\* const data = marshalMessage(msg)
Marshal ==
  /\ cpc = "msg"
  /\ LET r == marshalMessage(cmsg) IN
       IF r.err # ""
         THEN /\ cpc' = "threw"
              /\ cres' = [ err |-> r.err, msg |-> Undefined, off |-> 0 ]
              /\ UNCHANGED << cbuf, cfull >>
         ELSE /\ cpc' = "encoded"
              /\ cbuf' = r.bytes /\ cfull' = r.bytes
              /\ UNCHANGED cres
  /\ UNCHANGED << cmsg, demuxVars, waitVars, sendVars, loopVars,
                  pairVars, dialogueVars >>

\* the frame loses its tail: a proper prefix of n bytes is left
Cut ==
  /\ cpc \in { "encoded", "received" }
  /\ \E n \in 0 .. Len(cbuf) - 1 : cbuf' = SubSeq(cbuf, 1, n)
  /\ cpc' = "cut"
  /\ UNCHANGED << cmsg, cfull, cres, demuxVars, waitVars, sendVars, loopVars,
                  pairVars, dialogueVars >>

\* bytes follow the frame in the buffer handed to unmarshalMessage
TrailingBytes == { << 0 >>, << 0, 0, 0, 1 >>, << 255, 255, 255, 255, 1 >> }

Trail ==
  /\ cpc \in { "encoded", "received" }
  /\ \E x \in TrailingBytes : cbuf' = cbuf \o x
  /\ cpc' = "trailed"
  /\ UNCHANGED << cmsg, cfull, cres, demuxVars, waitVars, sendVars, loopVars,
                  pairVars, dialogueVars >>

\* const msg = unmarshalMessage(data)
Unmarshal ==
  /\ cpc \in { "encoded", "cut", "trailed", "received" }
  /\ cres' = unmarshalMessage(cbuf)
  /\ cpc' = "decoded"
  /\ UNCHANGED << cmsg, cbuf, cfull, demuxVars, waitVars, sendVars, loopVars,
                  pairVars, dialogueVars >>

CodecNext == Marshal \/ Cut \/ Unmarshal

CodecSpec == CodecInit /\ [][CodecNext]_vars

-----------------------------------------------------------------------------
(* Frames the server sends, in the layout getReaders expects: the header,  *)
(* then sequence or errorCode, then event, sessionId and connectId, then   *)
(* the payload.                                                             *)

ServerBody(msg) ==
       (IF msg.type = MsgType_Error THEN setUint32(Val(msg.errorCode))
        ELSE IF msg.flag \in SeqFlags THEN setInt32(Val(msg.sequence)) ELSE <<>>)
    \o (IF msg.flag # MsgTypeFlagBits_WithEvent THEN <<>>
        ELSE setInt32(Val(msg.event))
          \o (IF Val(msg.event) \in ReadSessionIdSkips THEN <<>>
              ELSE setUint32(U32(Len(Utf8Encode(Val(msg.sessionId)))))
                     \o Utf8Encode(Val(msg.sessionId)))
          \o (IF Val(msg.event) \notin ReadConnectIdEvents THEN <<>>
              ELSE setUint32(U32(Len(Utf8Encode(Val(msg.connectId)))))
                     \o Utf8Encode(Val(msg.connectId))))
    \o setUint32(U32(Len(msg.payload))) \o msg.payload

ServerFrame(msg) == BaseHeader(msg) \o ServerBody(msg)

ServerEvent(type, event, sessionId, connectId, payload) ==
  ServerFrame([createMessage(type, MsgTypeFlagBits_WithEvent) EXCEPT
                 !.event = Def(event), !.sessionId = sessionId,
                 !.connectId = connectId, !.payload = payload])

\* the session id "s", the connect id "c", the JSON payload "{}"
SessionS == Def(<< 115 >>)
ConnectC == Def(<< 99 >>)
EmptyJson == << 123, 125 >>

\* audio chunks A and B
AudioA == << 1, 2 >>
AudioB == << 3 >>

FrameConnectionStarted ==
  ServerEvent(MsgType_FullServerResponse, EventType_ConnectionStarted,
              Undefined, ConnectC, EmptyJson)
FrameSessionStarted ==
  ServerEvent(MsgType_FullServerResponse, EventType_SessionStarted,
              SessionS, Undefined, EmptyJson)
FrameStatus ==
  ServerEvent(MsgType_FullServerResponse, EventType_TTSResponse,
              SessionS, Undefined, EmptyJson)
FrameSessionFinished ==
  ServerEvent(MsgType_FullServerResponse, EventType_SessionFinished,
              SessionS, Undefined, EmptyJson)
FrameAudioA ==
  ServerEvent(MsgType_AudioOnlyServer, EventType_TTSResponse,
              SessionS, Undefined, AudioA)
FrameAudioB ==
  ServerFrame([createMessage(MsgType_AudioOnlyServer, MsgTypeFlagBits_PositiveSeq)
                 EXCEPT !.sequence = Def(5), !.payload = AudioB])
FrameError ==
  ServerFrame([createMessage(MsgType_Error, MsgTypeFlagBits_NoSeq)
                 EXCEPT !.errorCode = Def(U32(4)), !.payload = << 120 >>])
\* two bytes: too short to hold the base header
FrameShort == << 17, 180 >>

\* the JSON payload {"code":5}: a status code other than 0
StatusCodeJson == << 123, 34, 99, 111, 100, 101, 34, 58, 53, 125 >>

\* a status frame whose payload embeds a non-zero status code
FrameStatusCode ==
  ServerEvent(MsgType_FullServerResponse, EventType_TTSResponse,
              SessionS, Undefined, StatusCodeJson)
FrameSessionFailed ==
  ServerEvent(MsgType_FullServerResponse, EventType_SessionFailed,
              SessionS, Undefined, EmptyJson)
\* an audio frame that carries no bytes
FrameAudioEmpty ==
  ServerEvent(MsgType_AudioOnlyServer, EventType_TTSResponse,
              SessionS, Undefined, <<>>)
\* a frame of a kind the loop does not expect, other than Error
FrameFrontEnd ==
  ServerFrame([createMessage(MsgType_FrontEndResultServer, MsgTypeFlagBits_NoSeq)
                 EXCEPT !.payload = EmptyJson])

-----------------------------------------------------------------------------
(* The codec on every input: any Message a caller can build, whatever       *)
(* optional fields it sets, and any frame a peer can send, whatever its     *)
(* header size and reserved bytes.                                          *)

\* the 4-bit values of the kind and of the header size
Nibbles == 0 .. 15

WireEvents ==
  { Undefined, Def(EventType_ConnectionStarted), Def(EventType_ConnectionFinished),
    Def(EventType_StartSession) }

\* payloads of 0, 1 and 2 bytes
WirePayloads == { <<>>, << 7 >>, EmptyJson }

\* the Messages of the six kinds, each optional field set or not
AnyFieldMessages ==
  { Message(VersionBits_Version1, HeaderSizeBits_HeaderSize4, type, flag,
            SerializationBits_JSON, CompressionBits_None,
            event, sessionId, connectId, sequence, errorCode, payload) :
      type \in KnownTypes, flag \in SampleFlags, event \in WireEvents,
      sessionId \in { Undefined, Def(<< 97 >>) },
      connectId \in { Undefined, ConnectC },
      sequence \in { Undefined, Def(5) },
      errorCode \in { Undefined, Def(U32(4)) },
      payload \in WirePayloads }

\* one Message of every kind
AnyKindMessages ==
  { [createMessage(type, MsgTypeFlagBits_NoSeq) EXCEPT !.payload = EmptyJson] :
      type \in Nibbles }

\* one Message of every header size a 4-bit field holds
AnyHeaderSizeMessages ==
  { [createMessage(MsgType_FullClientRequest, MsgTypeFlagBits_NoSeq) EXCEPT
       !.headerSize = headerSize, !.payload = EmptyJson] :
      headerSize \in Nibbles }

WireMessages == AnyFieldMessages \cup AnyKindMessages \cup AnyHeaderSizeMessages

\* sixteen bytes of audio
Audio16 == [ i \in 1 .. 16 |-> i ]

\* what a peer sends: an audio frame with a sequence number, events with a
\* connect id or a session id, an error, and a frame of every kind
PeerMessages ==
  { [createMessage(MsgType_AudioOnlyServer, MsgTypeFlagBits_PositiveSeq) EXCEPT
       !.sequence = Def(5), !.payload = Audio16],
    [createMessage(MsgType_FullServerResponse, MsgTypeFlagBits_NegativeSeq) EXCEPT
       !.sequence = Def(-1), !.payload = EmptyJson],
    [createMessage(MsgType_FullServerResponse, MsgTypeFlagBits_WithEvent) EXCEPT
       !.event = Def(EventType_ConnectionStarted), !.connectId = ConnectC,
       !.payload = EmptyJson],
    [createMessage(MsgType_FullServerResponse, MsgTypeFlagBits_WithEvent) EXCEPT
       !.event = Def(EventType_SessionFinished), !.sessionId = SessionS,
       !.payload = EmptyJson],
    [createMessage(MsgType_Error, MsgTypeFlagBits_NoSeq) EXCEPT
       !.errorCode = Def(U32(4)), !.payload = << 120 >>] }
  \cup { msg \in AnyKindMessages : msg.type # MsgType_Error }

\* the reserved bytes of a header: all 0, all 255, or 1, 2, 3, ...
ReservedFills == { "zero", "ones", "ramp" }

Reserved(fill, n) ==
  [ i \in 1 .. n |->
      CASE fill = "zero" -> 0 [] fill = "ones" -> 255 [] OTHER -> i % 256 ]

\* the frame of msg as a peer with header size headerSize lays it out: the
\* three bytes of the base header, the rest of the header, the fields
PeerFrame(msg, headerSize, fill) ==
  << (msg.version * 16 + headerSize) % 256,
     (msg.type * 16 + msg.flag) % 256,
     (msg.serialization * 16 + msg.compression) % 256 >>
    \o Reserved(fill, IF headerSize = 0 THEN 0 ELSE 4 * headerSize - 3)
    \o ServerBody(msg)

\* a caller holds a Message to marshal, or a frame has been received
WireInit ==
  /\ \/ /\ cpc = "msg" /\ cmsg \in WireMessages
        /\ cbuf = <<>> /\ cfull = <<>>
     \/ /\ cpc = "received"
        /\ \E msg \in PeerMessages, headerSize \in Nibbles, fill \in ReservedFills :
             /\ cmsg = [msg EXCEPT !.headerSize = headerSize]
             /\ cbuf = PeerFrame(msg, headerSize, fill)
             /\ cfull = cbuf
  /\ cres = NoResult
  /\ DemuxIdle /\ WaitIdle /\ SendIdle /\ LoopIdle
  /\ PairIdle /\ DialogueIdle

WireSpec == WireInit /\ [][CodecNext]_vars

TrailNext == Marshal \/ Trail \/ Unmarshal

TrailSpec == WireInit /\ [][TrailNext]_vars

-----------------------------------------------------------------------------
(* messageQueues / messageCallbacks of one socket, setupMessageHandler,     *)
(* ReceiveMessage.  A ReceiveMessage call is a record of calls:             *)
(*   st    "pending" | "resolved" | "rejected": the state of its promise    *)
(*   msg   the Message it was resolved with                                 *)
(*   err   the 'error' event it was rejected with (its number; 0: none)     *)
(*   epoch the number of 'error' events emitted before the call (history)   *)
(*   by    the caller                                                       *)

MaxArrivals == 3
MaxCalls == 3
MaxErrors == 1

Range(seq) == { seq[i] : i \in 1 .. Len(seq) }
Without(seq, x) == SelectSeq(seq, LAMBDA y : y # x)

\* a ReceiveMessage that never looks at the queue
QueueNeverChecked(q) == FALSE

\* if (queue.length > 0)
QueueHasMessage(q) == Len(q) > 0

\* if (callbacks.length > 0)
HasWaiter(cbs) == Len(cbs) > 0

\* a queue.pop(): the newest message is taken, the older ones stay
pop(q) == [ value |-> q[Len(q)], rest |-> SubSeq(q, 1, Len(q) - 1) ]

\* queue.shift(): the oldest message is taken, the rest stay in order
shift(q) == [ value |-> Head(q), rest |-> Tail(q) ]

\* an errorHandler that rejects and leaves its resolver in callbacks
errorHandlerKeeps(cbs, resolver) == cbs

\* errorHandler: const index = callbacks.findIndex(cb => cb === resolver);
\* if (index !== -1) callbacks.splice(index, 1)
errorHandlerSplice(cbs, resolver) == Without(cbs, resolver)

\* a resolver that leaves its errorHandler attached
listenerStays(listeners, handler) == listeners

\* resolver: ws.removeListener('error', errorHandler)
removeListener(listeners, handler) == Without(listeners, handler)

\* resolve(msg) / reject(error) on a promise: only a pending promise settles
Settle(call, st, msg, err) ==
  IF call.st = "pending" THEN [call EXCEPT !.st = st, !.msg = msg, !.err = err]
  ELSE call

\* The whole of one ReceiveMessage(ws) call by caller `by`: setupMessageHandler
\* (which attaches the listeners on the first call, and again after 'close'
\* removed the socket from the maps), then the promise executor.
ReceiveMessage(by) ==
  /\ Len(calls) < MaxCalls
  /\ installed' = TRUE
  /\ LET id == Len(calls) + 1
         call == [ st |-> "pending", msg |-> Undefined, err |-> 0,
                   epoch |-> errors, by |-> by ]
     IN
     IF QueueHasMessage(queue)
       THEN /\ calls' = Append(calls, Settle(call, "resolved",
                                             Def(shift(queue).value), 0))
            /\ queue' = shift(queue).rest
            /\ UNCHANGED << callbacks, errListeners >>
       ELSE /\ calls' = Append(calls, call)
            /\ callbacks' = Append(callbacks, id)
            /\ errListeners' = Append(errListeners, id)
            /\ UNCHANGED queue
  /\ UNCHANGED << wsOpen, orphaned, arrived, thrown, errors >>

\* The socket emits 'message' with frame f.  Before the first ReceiveMessage
\* no 'message' listener is attached and the event reaches nobody.  The
\* listener rethrows a decode failure ("Error processing message: ..."); the
\* throw leaves the listener uncaught and changes neither array.
FrameArrives(f) ==
  /\ wsOpen
  /\ Len(arrived) < MaxArrivals
  /\ arrived' = Append(arrived, f)
  /\ IF ~installed
       THEN UNCHANGED << queue, callbacks, errListeners, calls, thrown >>
       ELSE LET r == unmarshalMessage(f) IN
         IF r.err # ""
           THEN /\ thrown' = Append(thrown, [ err |-> r.err,
                                              frame |-> Len(arrived) + 1,
                                              waiting |-> callbacks ])
                /\ UNCHANGED << queue, callbacks, errListeners, calls >>
         ELSE IF HasWaiter(callbacks)
           THEN LET callback == Head(callbacks) IN
                /\ callbacks' = Tail(callbacks)
                /\ errListeners' = removeListener(errListeners, callback)
                /\ calls' = [calls EXCEPT ![callback] =
                               Settle(@, "resolved", r.msg, 0)]
                /\ UNCHANGED << queue, thrown >>
         ELSE /\ queue' = Append(queue, Val(r.msg))
              /\ UNCHANGED << callbacks, errListeners, calls, thrown >>
  /\ UNCHANGED << wsOpen, installed, orphaned, errors >>

\* the callbacks array after every registered errorHandler has run
RECURSIVE SpliceAll(_, _)
SpliceAll(cbs, handlers) ==
  IF handlers = <<>> THEN cbs
  ELSE SpliceAll(errorHandlerSplice(cbs, Head(handlers)), Tail(handlers))

\* The socket emits 'error': every errorHandler registered with ws.once runs,
\* takes its resolver out of callbacks and rejects its promise.
ErrorEvent ==
  /\ wsOpen
  /\ errors < MaxErrors
  /\ errors' = errors + 1
  /\ callbacks' = SpliceAll(callbacks, errListeners)
  /\ calls' = [ k \in 1 .. Len(calls) |->
                  IF k \in Range(errListeners)
                    THEN Settle(calls[k], "rejected", Undefined, errors + 1)
                    ELSE calls[k] ]
  /\ errListeners' = <<>>
  /\ UNCHANGED << wsOpen, installed, queue, orphaned, arrived, thrown >>

\* a 'close' listener that leaves the entry in the map
MapEntryKept(entry) == entry

\* messageQueues.delete(ws) / messageCallbacks.delete(ws): the entry the next
\* setupMessageHandler finds is a new, empty array
MapEntryDeleted(entry) == <<>>

\* a 'close' listener that rejects the promise of every waiter
closeListenerRejects(cs, cbs) ==
  [ k \in 1 .. Len(cs) |->
      IF k \in Range(cbs) THEN Settle(cs[k], "rejected", Undefined, 0) ELSE cs[k] ]

\* the 'close' listener calls no resolver and no reject: every promise is
\* left as it was
closeListenerSettles(cs, cbs) == cs

\* The socket emits 'close' (its last event): the 'close' listener, attached
\* with the 'message' listener, deletes both map entries.
Close ==
  /\ wsOpen
  /\ wsOpen' = FALSE
  /\ IF installed
       THEN /\ installed' = FALSE
            /\ queue' = MapEntryDeleted(queue)
            /\ callbacks' = MapEntryDeleted(callbacks)
            /\ orphaned' = orphaned \o callbacks
       ELSE UNCHANGED << installed, queue, callbacks, orphaned >>
  /\ calls' = closeListenerSettles(calls, callbacks)
  /\ UNCHANGED << errListeners, arrived, thrown, errors >>

-----------------------------------------------------------------------------
(* WaitForEvent.  A call is a record of waits:                              *)
(*   call      the id of its ReceiveMessage call                            *)
(*   msgType, eventType   what it expects                                   *)
(*   st        "awaiting" | "returned" | "threw"                            *)
(*   msg       the Message it returned                                      *)
(*   err       what it threw                                                *)

NoError == [ name |-> "", type |-> "", event |-> "" ]

\* a check that compares the kind alone
UnexpectedTypeOnly(msg, msgType, eventType) == msg.type # msgType

\* a check that takes a missing event for 0: (msg.event || 0) !== eventType
UnexpectedOrZero(msg, msgType, eventType) ==
  msg.type # msgType
    \/ (IF IsDef(msg.event) THEN Val(msg.event) ELSE EventType_None) # eventType

\* if (msg.type !== msgType || msg.event !== eventType)
Unexpected(msg, msgType, eventType) ==
  msg.type # msgType \/ msg.event # Def(eventType)

\* new Error(`Unexpected message: type=${getMsgTypeName(msg.type)},
\*            event=${getEventTypeName(msg.event || 0)}`)
UnexpectedMessage(msg) ==
  [ name |-> "Unexpected message",
    type |-> getMsgTypeName(msg.type),
    event |-> getEventTypeName(IF IsDef(msg.event) THEN Val(msg.event)
                               ELSE EventType_None) ]

\* the rejection of the awaited ReceiveMessage, thrown on by the await
ConnectionError == [ name |-> "connection error", type |-> "", event |-> "" ]

\* WaitForEvent(ws, msgType, eventType) up to its await
WaitForEventCall(msgType, eventType) ==
  /\ ReceiveMessage("WaitForEvent")
  /\ waits' = Append(waits, [ call |-> Len(calls) + 1, msgType |-> msgType,
                              eventType |-> eventType, st |-> "awaiting",
                              msg |-> Undefined, err |-> NoError ])

\* a mismatch branch that puts the message back at the head of the queue
mismatchPutsBack(q, msg) == << msg >> \o q

\* the mismatch branch only throws: the queue is not touched
mismatchThrows(q, msg) == q

\* WaitForEvent after its await: the i-th call goes on with what its
\* ReceiveMessage settled to
WaitForEventResume(i) ==
  /\ waits[i].st = "awaiting"
  /\ calls[waits[i].call].st # "pending"
  /\ LET w == waits[i]
         c == calls[w.call]
     IN
     /\ waits' = [waits EXCEPT ![i] =
          IF c.st = "rejected" THEN [w EXCEPT !.st = "threw", !.err = ConnectionError]
          ELSE IF Unexpected(Val(c.msg), w.msgType, w.eventType)
            THEN [w EXCEPT !.st = "threw", !.err = UnexpectedMessage(Val(c.msg))]
          ELSE [w EXCEPT !.st = "returned", !.msg = c.msg]]
     /\ queue' = IF c.st = "resolved" /\ Unexpected(Val(c.msg), w.msgType, w.eventType)
                   THEN mismatchThrows(queue, Val(c.msg))
                   ELSE queue
  /\ UNCHANGED << wsOpen, installed, callbacks, orphaned, errListeners,
                  calls, arrived, thrown, errors >>

-----------------------------------------------------------------------------
(* The message queue of one socket: callers of ReceiveMessage, and a socket *)
(* that emits 'message', 'error' and 'close'.                               *)

DemuxFrames == { FrameAudioA, FrameAudioB, FrameShort }

Init == CodecIdle /\ DemuxIdle /\ WaitIdle /\ SendIdle /\ LoopIdle
  /\ PairIdle /\ DialogueIdle

Receive ==
  /\ ReceiveMessage("caller")
  /\ UNCHANGED << codecVars, pairVars, dialogueVars, waitVars, sendVars, loopVars >>

Arrive ==
  /\ \E f \in DemuxFrames : FrameArrives(f)
  /\ UNCHANGED << codecVars, pairVars, dialogueVars, waitVars, sendVars, loopVars >>

SocketError ==
  /\ ErrorEvent
  /\ UNCHANGED << codecVars, pairVars, dialogueVars, waitVars, sendVars, loopVars >>

SocketClose ==
  /\ Close
  /\ UNCHANGED << codecVars, pairVars, dialogueVars, waitVars, sendVars, loopVars >>

Next == Receive \/ Arrive \/ SocketError \/ SocketClose

Spec == Init /\ [][Next]_vars

-----------------------------------------------------------------------------
(* The same socket with callers of WaitForEvent.                            *)

WaitFrames == { FrameConnectionStarted, FrameSessionFinished, FrameAudioB }

MaxWaits == 2
MaxWaitArrivals == 2

WaitExpectations ==
  { << MsgType_FullServerResponse, EventType_ConnectionStarted >>,
    << MsgType_AudioOnlyServer, EventType_None >> }

WaitCall ==
  /\ Len(waits) < MaxWaits
  /\ \E x \in WaitExpectations : WaitForEventCall(x[1], x[2])
  /\ UNCHANGED << codecVars, pairVars, dialogueVars, sendVars, loopVars >>

WaitResume ==
  /\ \E i \in 1 .. Len(waits) : WaitForEventResume(i)
  /\ UNCHANGED << codecVars, pairVars, dialogueVars, sendVars, loopVars >>

WaitArrive ==
  /\ Len(arrived) < MaxWaitArrivals
  /\ \E f \in WaitFrames : FrameArrives(f)
  /\ UNCHANGED << codecVars, pairVars, dialogueVars, waitVars, sendVars, loopVars >>

WaitNext == WaitCall \/ WaitResume \/ WaitArrive \/ SocketError \/ SocketClose

WaitSpec == Init /\ [][WaitNext]_vars

-----------------------------------------------------------------------------
(* The send helpers.  Each builds a Message with createMessage, marshals it *)
(* and hands the bytes to ws.send(data, callback); its promise settles in   *)
(* the callback.  A record of sent is [helper, args, msg, data].            *)

MaxSends == 2

StartConnectionMessage ==
  [createMessage(MsgType_FullClientRequest, MsgTypeFlagBits_WithEvent) EXCEPT
     !.event = Def(EventType_StartConnection), !.payload = EmptyJson]

FinishConnectionMessage ==
  [createMessage(MsgType_FullClientRequest, MsgTypeFlagBits_WithEvent) EXCEPT
     !.event = Def(EventType_FinishConnection), !.payload = EmptyJson]

StartSessionMessage(payload, sessionId) ==
  [createMessage(MsgType_FullClientRequest, MsgTypeFlagBits_WithEvent) EXCEPT
     !.event = Def(EventType_StartSession), !.sessionId = Def(sessionId),
     !.payload = payload]

FinishSessionMessage(sessionId) ==
  [createMessage(MsgType_FullClientRequest, MsgTypeFlagBits_WithEvent) EXCEPT
     !.event = Def(EventType_FinishSession), !.sessionId = Def(sessionId),
     !.payload = EmptyJson]

\* a CancelSession that leaves the session id out
CancelSessionNoId(sessionId) ==
  [createMessage(MsgType_FullClientRequest, MsgTypeFlagBits_WithEvent) EXCEPT
     !.event = Def(EventType_CancelSession), !.payload = EmptyJson]

CancelSessionMessage(sessionId) ==
  [createMessage(MsgType_FullClientRequest, MsgTypeFlagBits_WithEvent) EXCEPT
     !.event = Def(EventType_CancelSession), !.sessionId = Def(sessionId),
     !.payload = EmptyJson]

TaskRequestMessage(payload, sessionId) ==
  [createMessage(MsgType_FullClientRequest, MsgTypeFlagBits_WithEvent) EXCEPT
     !.event = Def(EventType_TaskRequest), !.sessionId = Def(sessionId),
     !.payload = payload]

FullClientRequestMessage(payload) ==
  [createMessage(MsgType_FullClientRequest, MsgTypeFlagBits_NoSeq) EXCEPT
     !.payload = payload]

AudioOnlyClientMessage(payload, flag) ==
  [createMessage(MsgType_AudioOnlyClient, flag) EXCEPT !.payload = payload]

\* the arguments of a send helper call after ws: an argument the helper
\* does not take is Undefined
Args(payload, sessionId, flag) ==
  [ payload |-> payload, sessionId |-> sessionId, flag |-> flag ]

\* const data = marshalMessage(msg); ws.send(data, callback)
Send(helper, args, msg) ==
  /\ sendPc = "idle"
  /\ Len(sent) < MaxSends
  /\ sent' = Append(sent, [ helper |-> helper, args |-> args, msg |-> msg,
                            data |-> marshalMessage(msg).bytes ])
  /\ sendPc' = "writing"
  /\ UNCHANGED << sendLog, writeLog >>

\* the errors the transport reports for a write
WriteErrors == { "EPIPE", "ECONNRESET" }

\* a callback that resolves whatever it is passed
writeCallbackResolves(error) == [ st |-> "resolved", reason |-> Undefined ]

\* (error?: Error) => { if (error) reject(error) else resolve() }
writeCallback(error) ==
  IF IsDef(error) THEN [ st |-> "rejected", reason |-> error ]
  ELSE [ st |-> "resolved", reason |-> Undefined ]

\* ws.send calls the callback: with no error when the write is done, with an
\* error when it failed.  A write on a socket that is no longer open reports
\* an error.
SendCallback ==
  /\ sendPc = "writing"
  /\ \E error \in { Undefined } \cup { Def(e) : e \in WriteErrors } :
       /\ ~IsDef(error) => wsOpen
       /\ sendLog' = Append(sendLog, writeCallback(error).st)
       /\ writeLog' = Append(writeLog, [ error |-> error,
                                         reason |-> writeCallback(error).reason ])
  /\ sendPc' = "idle"
  /\ UNCHANGED sent

\* the request bodies and session ids the callers pass: "{}" and "[]";
\* "abc" and "s"
SendPayloads == { EmptyJson, << 91, 93 >> }
SendSessionIds == { << 97, 98, 99 >>, << 115 >> }
SendFlags ==
  { MsgTypeFlagBits_NoSeq, MsgTypeFlagBits_PositiveSeq,
    MsgTypeFlagBits_LastNoSeq, MsgTypeFlagBits_NegativeSeq }

SendFrame ==
  UNCHANGED << codecVars, pairVars, dialogueVars, demuxVars, waitVars, loopVars >>

StartConnection ==
  /\ Send("StartConnection", Args(Undefined, Undefined, Undefined),
          StartConnectionMessage)
  /\ SendFrame

FinishConnection ==
  /\ Send("FinishConnection", Args(Undefined, Undefined, Undefined),
          FinishConnectionMessage)
  /\ SendFrame

StartSession ==
  /\ \E payload \in SendPayloads, sessionId \in SendSessionIds :
       Send("StartSession", Args(Def(payload), Def(sessionId), Undefined),
            StartSessionMessage(payload, sessionId))
  /\ SendFrame

FinishSession ==
  /\ \E sessionId \in SendSessionIds :
       Send("FinishSession", Args(Undefined, Def(sessionId), Undefined),
            FinishSessionMessage(sessionId))
  /\ SendFrame

CancelSession ==
  /\ \E sessionId \in SendSessionIds :
       Send("CancelSession", Args(Undefined, Def(sessionId), Undefined),
            CancelSessionMessage(sessionId))
  /\ SendFrame

TaskRequest ==
  /\ \E payload \in SendPayloads, sessionId \in SendSessionIds :
       Send("TaskRequest", Args(Def(payload), Def(sessionId), Undefined),
            TaskRequestMessage(payload, sessionId))
  /\ SendFrame

FullClientRequest ==
  /\ \E payload \in SendPayloads :
       Send("FullClientRequest", Args(Def(payload), Undefined, Undefined),
            FullClientRequestMessage(payload))
  /\ SendFrame

AudioOnlyClient ==
  /\ \E payload \in SendPayloads, flag \in SendFlags :
       Send("AudioOnlyClient", Args(Def(payload), Undefined, Def(flag)),
            AudioOnlyClientMessage(payload, flag))
  /\ SendFrame

WriteDone == SendCallback /\ SendFrame

SendNext ==
  \/ StartConnection \/ FinishConnection \/ StartSession \/ FinishSession
  \/ CancelSession \/ TaskRequest \/ FullClientRequest \/ AudioOnlyClient
  \/ WriteDone \/ SocketClose

SendSpec == Init /\ [][SendNext]_vars

-----------------------------------------------------------------------------
(* synthesizeSingle from the open socket on: it sends the request with      *)
(* FullClientRequest, then reads frames with ReceiveMessage until the       *)
(* FullServerResponse that carries SessionFinished.                         *)
(*   lpc   "connecting" | "idle" | "sending" | "await" | "done" | "failed"  *)

LoopFrames ==
  { FrameStatusCode, FrameAudioA, FrameAudioB, FrameAudioEmpty,
    FrameSessionFinished, FrameSessionFailed,
    FrameError, FrameFrontEnd }

\* a switch that sends only the kind Error to its default branch
IsErrorType(msg) == msg.type = MsgType_Error

\* switch (msg.type): the default branch, for every kind but
\* FullServerResponse and AudioOnlyServer
IsUnknownType(msg) ==
  msg.type \notin { MsgType_FullServerResponse, MsgType_AudioOnlyServer }

\* a test that takes every FullServerResponse for the terminal frame
IsFullServerResponse(msg) == msg.type = MsgType_FullServerResponse

\* if (msg.type === MsgType.FullServerResponse &&
\*     msg.event === EventType.SessionFinished) break
IsTerminal(msg) ==
  msg.type = MsgType_FullServerResponse /\ msg.event = Def(EventType_SessionFinished)

\* Buffer.concat(audioChunks)
RECURSIVE Concat(_)
Concat(chunks) ==
  IF chunks = <<>> THEN <<>> ELSE Head(chunks) \o Concat(Tail(chunks))

\* a catch block that throws on and leaves the socket as it is
catchWithoutClose(err) ==
  /\ lpc' = "failed"
  /\ lresult' = [ st |-> "threw", audio |-> <<>>, err |-> err ]
  /\ closeCalls' = closeCalls

\* the catch block: ws.close(), then throw new Error(...)
Fail(err) ==
  /\ lpc' = "failed"
  /\ lresult' = [ st |-> "threw", audio |-> <<>>, err |-> err ]
  /\ closeCalls' = closeCalls + 1

\* after the loop: if (audioChunks.length === 0) throw ...; otherwise
\* Buffer.concat, ws.close() and return
Finish(chunks) ==
  IF Len(chunks) = 0
    THEN Fail("no audio data")
    ELSE /\ lpc' = "done"
         /\ lresult' = [ st |-> "returned", audio |-> Concat(chunks),
                         err |-> "" ]
         /\ closeCalls' = closeCalls + 1

\* ws = new WebSocket(...) has run and the call awaits 'open'
LoopInit ==
  /\ CodecIdle /\ DemuxIdle /\ WaitIdle /\ SendIdle /\ PairIdle /\ DialogueIdle
  /\ lpc = "connecting" /\ lcall = 0 /\ audioChunks = <<>> /\ lreads = 0
  /\ lresult = [ st |-> "none", audio |-> <<>>, err |-> "" ]
  /\ closeCalls = 0

\* the socket emits 'open': the awaited promise resolves
SynthesizeOpen ==
  /\ lpc = "connecting"
  /\ lpc' = "idle"
  /\ UNCHANGED << lcall, audioChunks, lreads, lresult, closeCalls >>
  /\ UNCHANGED << codecVars, pairVars, dialogueVars, demuxVars, waitVars, sendVars >>

\* the socket emits 'error' before 'open', or the 10 s timer fires: the
\* rejection lands in the catch block, and the socket closed there never
\* opens
SynthesizeOpenFails ==
  /\ lpc = "connecting"
  /\ Fail("connect failed")
  /\ wsOpen' = FALSE
  /\ UNCHANGED << installed, queue, callbacks, orphaned, errListeners,
                  calls, arrived, thrown, errors >>
  /\ UNCHANGED << lcall, audioChunks, lreads >>
  /\ UNCHANGED << codecVars, pairVars, dialogueVars, waitVars, sendVars >>

\* await FullClientRequest(ws, request body), up to the write
SynthesizeSend ==
  /\ lpc = "idle"
  /\ Send("FullClientRequest", Args(Def(EmptyJson), Undefined, Undefined),
          FullClientRequestMessage(EmptyJson))
  /\ lpc' = "sending"
  /\ UNCHANGED << lcall, audioChunks, lreads, lresult, closeCalls >>
  /\ UNCHANGED << codecVars, pairVars, dialogueVars, demuxVars, waitVars >>

\* const msg = await ReceiveMessage(ws), up to the await.  It runs in the
\* same turn as the code before it: no socket event comes in between.
LoopRead ==
  /\ ReceiveMessage("synthesizeSingle")
  /\ lcall' = Len(calls) + 1
  /\ lreads' = lreads + 1
  /\ lpc' = "await"

\* the write callback settles the send: the loop is entered and makes its
\* first read, or the rejection lands in the catch block
SynthesizeSent ==
  /\ lpc = "sending"
  /\ SendCallback
  /\ IF sendLog'[Len(sendLog')] = "resolved"
       THEN LoopRead /\ UNCHANGED << lresult, closeCalls >>
       ELSE Fail("write failed") /\ UNCHANGED << lcall, lreads, demuxVars >>
  /\ UNCHANGED audioChunks
  /\ UNCHANGED << codecVars, pairVars, dialogueVars, waitVars >>

\* the body of the loop once the awaited promise has settled: the switch on
\* msg.type (the inspection of a FullServerResponse payload only logs), the
\* test for the terminal frame, and the next read
LoopHandle ==
  /\ lpc = "await"
  /\ calls[lcall].st # "pending"
  /\ IF calls[lcall].st = "rejected"
       THEN /\ Fail("connection error")
            /\ UNCHANGED << audioChunks, lcall, lreads, demuxVars >>
       ELSE LET msg == Val(calls[lcall].msg) IN
         IF IsUnknownType(msg)
           THEN /\ Fail("unknown message type")
                /\ UNCHANGED << audioChunks, lcall, lreads, demuxVars >>
         ELSE
           /\ audioChunks' = IF msg.type = MsgType_AudioOnlyServer
                               THEN Append(audioChunks, msg.payload)
                               ELSE audioChunks
           /\ IF IsTerminal(msg)
                THEN Finish(audioChunks') /\ UNCHANGED << lcall, lreads, demuxVars >>
                ELSE LoopRead /\ UNCHANGED << lresult, closeCalls >>
  /\ UNCHANGED << codecVars, pairVars, dialogueVars, waitVars, sendVars >>

\* the open socket emits 'message', 'error' and 'close'
LoopArrive ==
  /\ lpc # "connecting"
  /\ \E f \in LoopFrames : FrameArrives(f)
  /\ UNCHANGED << codecVars, pairVars, dialogueVars, waitVars, sendVars, loopVars >>

LoopError == lpc # "connecting" /\ SocketError

LoopClose == lpc # "connecting" /\ SocketClose

LoopNext ==
  \/ SynthesizeOpen \/ SynthesizeOpenFails
  \/ SynthesizeSend \/ SynthesizeSent \/ LoopHandle \/ LoopArrive
  \/ LoopError \/ LoopClose

LoopSpec == LoopInit /\ [][LoopNext]_vars

-----------------------------------------------------------------------------
(* Properties of the codec, checked under CodecSpec *)

\* the messages the presence rules permit: a known kind, and exactly the
\* optional fields that (kind, flag, event) make applicable
Permitted(m) == m \in PermittedMessages

\* the whole frame was decoded / a proper prefix of it was decoded
DecodedWhole == cpc = "decoded" /\ cbuf = cfull
DecodedPrefix == cpc = "decoded" /\ Len(cbuf) < Len(cfull)

\* the code's errors under the names of the error taxonomy
IsFrameTooShort(err) == err = "data too short"
IsTruncatedField(err) ==
  err \in { "insufficient data for event", "insufficient data for session ID size",
            "insufficient data for session ID", "insufficient data for connect ID size",
            "insufficient data for connect ID", "insufficient data for sequence",
            "insufficient data for error code", "insufficient data for payload size",
            "insufficient data for payload" }

\* C3: for every Message the presence rules permit,
\* unmarshalMessage(marshalMessage(m)) returns a Message that has every
\* applicable field of m unchanged and every inapplicable field unset, that
\* is, m itself.
C3_RoundTrip ==
  (DecodedWhole /\ Permitted(cmsg)) => (cres.err = "" /\ cres.msg = Def(cmsg))

\* C7: decoding a proper prefix of the encoding of a permitted Message fails
\* with TruncatedField or FrameTooShort: it returns no Message and throws no
\* other error.
C7_TruncationSafety ==
  (DecodedPrefix /\ Permitted(cmsg)) =>
     (IsFrameTooShort(cres.err) \/ IsTruncatedField(cres.err))

-----------------------------------------------------------------------------
(* Properties of the message queue, checked under Spec *)

\* the Messages the resolved ReceiveMessage calls returned, in call order
RECURSIVE DeliveredUpTo(_)
DeliveredUpTo(k) ==
  IF k = 0 THEN <<>>
  ELSE IF calls[k].st = "resolved"
    THEN Append(DeliveredUpTo(k - 1), Val(calls[k].msg))
    ELSE DeliveredUpTo(k - 1)
Delivered == DeliveredUpTo(Len(calls))

\* the Messages of the first n frames the socket emitted, without the frames
\* that do not decode
RECURSIVE DecodedUpTo(_)
DecodedUpTo(n) ==
  IF n = 0 THEN <<>>
  ELSE LET r == unmarshalMessage(arrived[n]) IN
    IF r.err = "" THEN Append(DecodedUpTo(n - 1), Val(r.msg))
    ELSE DecodedUpTo(n - 1)
DecodedArrivals == DecodedUpTo(Len(arrived))

AllArrivalsDecode ==
  \A i \in 1 .. Len(arrived) : unmarshalMessage(arrived[i]).err = ""

\* C1: on an open connection with no error and no close, the k-th
\* ReceiveMessage call completes with the k-th frame that arrived: once k
\* frames have arrived the k-th call is resolved with the Message of the k-th
\* frame, and it is pending before.
C1_KthCallGetsKthFrame ==
  (wsOpen /\ errors = 0 /\ thrown = <<>> /\ AllArrivalsDecode) =>
    \A k \in 1 .. Len(calls) :
      IF k <= Len(arrived)
        THEN /\ calls[k].st = "resolved"
             /\ calls[k].msg = unmarshalMessage(arrived[k]).msg
        ELSE calls[k].st = "pending"

\* C2 as claimed: in every reachable state exactly one of {queue non-empty,
\* waiter list non-empty} holds.
C2_ExactlyOneNonEmpty == (Len(queue) > 0) # (Len(callbacks) > 0)

\* C2 as amended: in every reachable state at most one of {queue non-empty,
\* waiter list non-empty} holds; the two are never non-empty together.
C2_AtMostOneNonEmpty == ~(Len(queue) > 0 /\ Len(callbacks) > 0)

\* a frame was queued on a socket that ReceiveMessage has been called on
C2_Witness == Len(queue) > 0 /\ Len(calls) > 0

\* C6: until the connection closes no message is dropped, duplicated or
\* reordered: the Messages returned so far, followed by the queue, are the
\* Messages of the decodable frames that arrived, in arrival order.
C6_NoDropDupReorder == wsOpen => (Delivered \o queue = DecodedArrivals)

\* C8: a frame that fails to decode is fatal to the connection: every
\* ReceiveMessage pending when it arrived is rejected, and no frame after it
\* is delivered or queued (no more Messages are ever produced than decodable
\* frames arrived before it).
C8_DecodeFailureIsFatal ==
  \A i \in 1 .. Len(thrown) :
    /\ \A c \in Range(thrown[i].waiting) : calls[c].st = "rejected"
    /\ Len(Delivered) + Len(queue) <= Len(DecodedUpTo(thrown[i].frame - 1))

\* C9: a connection error rejects every suspended ReceiveMessage call with
\* that error and removes its waiter: no call stays pending across an error,
\* a rejected call was rejected by the first error after it was issued, and
\* the waiter list holds pending calls only, so a later frame is queued and
\* not handed to a rejected waiter.
C9_ErrorRejectsWaiters ==
  /\ \A k \in 1 .. Len(calls) :
       /\ calls[k].st = "pending" => calls[k].epoch = errors
       /\ calls[k].st = "rejected" => calls[k].err = calls[k].epoch + 1
  /\ \A id \in Range(callbacks) : calls[id].st = "pending"

\* a call was rejected by an error and a frame that arrived later is queued
C9_Witness ==
  /\ \E k \in 1 .. Len(calls) : calls[k].st = "rejected"
  /\ Len(queue) > 0 /\ callbacks = <<>>

-----------------------------------------------------------------------------
(* Properties of WaitForEvent, checked under WaitSpec *)

\* the kind and event an UnexpectedMessage error reports are those of msg
Carries(err, msg) ==
  /\ err.name = "Unexpected message"
  /\ (err.type = "FullServerResponse") = (msg.type = MsgType_FullServerResponse)
  /\ (err.type = "AudioOnlyServer") = (msg.type = MsgType_AudioOnlyServer)
  /\ err.type \in { "FullServerResponse", "AudioOnlyServer" }
  /\ (err.event = "ConnectionStarted") = (msg.event = Def(EventType_ConnectionStarted))
  /\ (err.event = "SessionFinished") = (msg.event = Def(EventType_SessionFinished))
  /\ (err.event = "None") = (msg.event = Undefined)
  /\ err.event \in { "ConnectionStarted", "SessionFinished", "None" }

\* C10: WaitForEvent performs exactly one ReceiveMessage; it returns the
\* received Message if and only if its (kind, event) equals the expected
\* pair, and otherwise throws UnexpectedMessage carrying the kind and event
\* observed.
C10_WaitForEvent ==
  /\ Cardinality({ k \in 1 .. Len(calls) : calls[k].by = "WaitForEvent" }) = Len(waits)
  /\ \A i \in 1 .. Len(waits) :
       LET w == waits[i]
           c == calls[w.call]
           matches == /\ Val(c.msg).type = w.msgType
                      /\ Val(c.msg).event = Def(w.eventType)
       IN
       /\ \A j \in 1 .. Len(waits) : j # i => waits[j].call # w.call
       /\ c.by = "WaitForEvent"
       /\ w.st = "returned" => (c.st = "resolved" /\ matches /\ w.msg = c.msg)
       /\ (w.st = "threw" /\ c.st = "resolved") =>
            (~matches /\ Carries(w.err, Val(c.msg)))
       /\ (w.st = "threw" /\ c.st # "resolved") =>
            (c.st = "rejected" /\ w.err = ConnectionError)
       /\ w.st = "awaiting" => (w.msg = Undefined /\ w.err = NoError)

\* one WaitForEvent returned its Message and another threw UnexpectedMessage
C10_Witness ==
  /\ \E i \in 1 .. Len(waits) : waits[i].st = "returned"
  /\ \E j \in 1 .. Len(waits) :
       waits[j].st = "threw" /\ waits[j].err.name = "Unexpected message"

-----------------------------------------------------------------------------
(* Properties of the send helpers, checked under SendSpec *)

\* StartSession was called with the payload "{}" and the session id "abc"
IsScenarioA(x) ==
  /\ x.helper = "StartSession"
  /\ x.msg.sessionId = Def(<< 97, 98, 99 >>)
  /\ x.msg.payload = << 123, 125 >>

\* C4 as claimed: StartSession with sessionId "abc" and payload "{}" sends
\* 01 14 01, then 00 00 00 64, then 00 00 00 03 61 62 63, then
\* 00 00 00 02 7b 7d.
C4_ScenarioA_AsClaimed ==
  \A i \in 1 .. Len(sent) :
    IsScenarioA(sent[i]) =>
      sent[i].data = << 1, 20, 1 >> \o << 0, 0, 0, 100 >>
                       \o << 0, 0, 0, 3, 97, 98, 99 >> \o << 0, 0, 0, 2, 123, 125 >>

\* C4 as amended: StartSession with sessionId "abc" and payload "{}" sends
\* the 4-byte header 11 14 10 00 (version 1 and headerSize 1, kind 1 and
\* flag 4, serialization 1 and compression 0, one reserved byte), then
\* 00 00 00 64, then 00 00 00 03 61 62 63, then 00 00 00 02 7b 7d.
C4_ScenarioA ==
  \A i \in 1 .. Len(sent) :
    IsScenarioA(sent[i]) =>
      sent[i].data = << 17, 20, 16, 0 >> \o << 0, 0, 0, 100 >>
                       \o << 0, 0, 0, 3, 97, 98, 99 >> \o << 0, 0, 0, 2, 123, 125 >>

\* StartSession("{}", "abc") has handed its frame to the socket
C4_Witness == \E i \in 1 .. Len(sent) : IsScenarioA(sent[i])

-----------------------------------------------------------------------------
(* Properties of the streaming loop, checked under LoopSpec *)

\* the audio payloads among the first n arrivals, in arrival order
RECURSIVE AudioUpTo(_)
AudioUpTo(n) ==
  IF n = 0 THEN <<>>
  ELSE LET m == unmarshalMessage(arrived[n]).msg IN
       IF IsDef(m) /\ Val(m).type = MsgType_AudioOnlyServer
         THEN Append(AudioUpTo(n - 1), Val(m).payload)
         ELSE AudioUpTo(n - 1)

\* the arrivals are status frames and audio frames (at least one of these),
\* followed by the FullServerResponse with SessionFinished
StreamComplete ==
  /\ Len(arrived) > 0
  /\ arrived[Len(arrived)] = FrameSessionFinished
  /\ \A i \in 1 .. Len(arrived) - 1 :
       arrived[i] \in { FrameStatus, FrameStatusCode, FrameAudioA, FrameAudioB }
  /\ AudioUpTo(Len(arrived)) # <<>>

\* C5: when status and audio frames followed by SessionFinished have arrived
\* on a socket without error, a loop that has ended has returned the audio
\* payloads concatenated in arrival order, and the loop has made no more
\* ReceiveMessage calls than frames arrived (none after SessionFinished).
C5_LoopReturnsAudio ==
  (StreamComplete /\ errors = 0 /\ lresult.err # "write failed") =>
    /\ lreads <= Len(arrived)
    /\ lpc \in { "done", "failed" } =>
         /\ lresult.st = "returned"
         /\ lresult.audio = Concat(AudioUpTo(Len(arrived)))

\* the ReceiveMessage calls of the loop that its body has gone through: all
\* of them but the one it is awaiting
Handled(k) ==
  /\ k \in 1 .. Len(calls)
  /\ calls[k].by = "synthesizeSingle"
  /\ calls[k].st = "resolved"
  /\ (lpc = "await" => k # lcall)

\* the loop left through its break
EndedNormally ==
  /\ lpc \in { "done", "failed" }
  /\ lcall > 0 /\ calls[lcall].st = "resolved"
  /\ IsTerminal(Val(calls[lcall].msg))

\* C11: whenever the loop ends normally (on the FullServerResponse with
\* SessionFinished) and the accumulated audio is empty (zero audio bytes were
\* collected), synthesizeSingle throws EmptyResult and returns no audio
\* result.
C11_EmptyResult ==
  (EndedNormally /\ Concat(audioChunks) = <<>>) =>
     (lpc = "failed" /\ lresult.st = "threw" /\ lresult.err = "no audio data")

\* C12: the first received Message whose kind is neither AudioOnlyServer nor
\* FullServerResponse fails the loop at once: it is the last ReceiveMessage
\* the loop makes, the loop is failed, and no audio is returned.
C12_UnknownKindFails ==
  \A k \in 1 .. Len(calls) :
    (Handled(k) /\ Val(calls[k].msg).type \in
                     { MsgType_Error, MsgType_FrontEndResultServer,
                       MsgType_FullClientRequest, MsgType_AudioOnlyClient }) =>
       /\ k = lcall
       /\ lreads = Cardinality({ j \in 1 .. Len(calls) :
                                   calls[j].by = "synthesizeSingle" /\ j <= k })
       /\ lpc = "failed"
       /\ lresult.st = "threw" /\ lresult.err = "unknown message type"
       /\ lresult.audio = <<>>

\* audio had been collected when a frame of kind Error or FrontEndResultServer
\* failed the loop
C12_Witness ==
  /\ lpc = "failed" /\ lresult.err = "unknown message type"
  /\ audioChunks # <<>>
  /\ calls[lcall].st = "resolved"
  /\ Val(calls[lcall].msg).type = MsgType_FrontEndResultServer

\* C13: a FullServerResponse whose event is not SessionFinished (a status
\* frame, whatever status code its payload embeds) neither ends nor fails the
\* loop: the loop goes on to its next ReceiveMessage with the audio unchanged.
\* An AudioOnlyServer frame never stops the loop, and the loop stops normally
\* only on a FullServerResponse with SessionFinished.
C13_OnlySessionFinishedStops ==
  [][ (lpc = "await" /\ calls[lcall].st = "resolved"
         /\ (lpc' # lpc \/ lcall' # lcall)) =>
        LET msg == Val(calls[lcall].msg) IN
        /\ (msg.type = MsgType_FullServerResponse
              /\ msg.event # Def(EventType_SessionFinished)) =>
             /\ lpc' = "await" /\ lcall' = Len(calls) + 1
             /\ lreads' = lreads + 1
             /\ audioChunks' = audioChunks /\ lresult' = lresult
        /\ msg.type = MsgType_AudioOnlyServer => lpc' = "await"
        /\ lpc' = "done" =>
             /\ msg.type = MsgType_FullServerResponse
             /\ msg.event = Def(EventType_SessionFinished) ]_vars

\* the loop went past a status frame with a non-zero status code and later
\* ended on SessionFinished
C13_Witness ==
  /\ lpc = "done"
  /\ \E k \in 1 .. Len(calls) :
       /\ Handled(k) /\ k < lcall
       /\ Val(calls[k].msg).type = MsgType_FullServerResponse
       /\ Val(calls[k].msg).payload = StatusCodeJson

\* a received Message that reports a failure: kind Error, or the event
\* ConnectionFailed or SessionFailed
IsFailureMessage(msg) ==
  \/ msg.type = MsgType_Error
  \/ msg.event \in { Def(EventType_ConnectionFailed), Def(EventType_SessionFailed) }

\* C14: a received Message that is ConnectionFailed, SessionFailed or of kind
\* Error ends the session as Failed: the loop that received it has stopped
\* and reports failure, and made no ReceiveMessage after it.
C14_FailureFrameFails ==
  \A k \in 1 .. Len(calls) :
    (Handled(k) /\ IsFailureMessage(Val(calls[k].msg))) =>
       (lpc = "failed" /\ k = lcall)

-----------------------------------------------------------------------------
(* Properties of the codec on every input, checked under WireSpec *)

\* the events of connection scope, which carry no session id, and the events
\* that carry a connect id
ConnectionScopeEvents ==
  { EventType_StartConnection, EventType_FinishConnection,
    EventType_ConnectionStarted, EventType_ConnectionFailed }
ConnectIdEvents ==
  { EventType_ConnectionStarted, EventType_ConnectionFailed,
    EventType_ConnectionFinished }

\* the six kinds, and the five of them that bear content
SixKinds ==
  { MsgType_FullClientRequest, MsgType_AudioOnlyClient, MsgType_FullServerResponse,
    MsgType_AudioOnlyServer, MsgType_FrontEndResultServer, MsgType_Error }
ContentKinds == SixKinds \ { MsgType_Error }

\* C15: with flag WithEvent and an event of connection scope, marshalMessage
\* writes no session id (the frame is the header, the event, the error code
\* of an Error message if set, and the payload) and unmarshalMessage sets
\* none; unmarshalMessage sets a connect id only for ConnectionStarted,
\* ConnectionFailed and ConnectionFinished; marshalMessage never writes a
\* connect id (the frame does not depend on it).
C15_ScopeExclusion ==
  /\ (cpc = "encoded" /\ cmsg.flag = MsgTypeFlagBits_WithEvent
        /\ IsDef(cmsg.event) /\ Val(cmsg.event) \in ConnectionScopeEvents) =>
       Len(cfull) = 4 * cmsg.headerSize + 4
                      + (IF cmsg.type = MsgType_Error /\ IsDef(cmsg.errorCode)
                           THEN 4 ELSE 0)
                      + 4 + Len(cmsg.payload)
  /\ cpc = "encoded" =>
       cfull = marshalMessage([cmsg EXCEPT !.connectId = Undefined]).bytes
  /\ (cpc = "decoded" /\ cres.err = "") =>
       LET d == Val(cres.msg) IN
       /\ IsDef(d.sessionId) =>
            /\ d.flag = MsgTypeFlagBits_WithEvent
            /\ Val(d.event) \notin ConnectionScopeEvents
       /\ IsDef(d.connectId) =>
            /\ d.flag = MsgTypeFlagBits_WithEvent
            /\ Val(d.event) \in ConnectIdEvents

\* a Message with ConnectionStarted and a session id set by the caller was
\* marshalled
C15_Witness ==
  /\ cpc = "encoded" /\ cmsg.flag = MsgTypeFlagBits_WithEvent
  /\ cmsg.event = Def(EventType_ConnectionStarted)
  /\ IsDef(cmsg.sessionId) /\ IsDef(cmsg.connectId)

\* the length of the frame of m under the layout rules
LayoutLength(m) ==
  4 * m.headerSize
    + (IF m.flag = MsgTypeFlagBits_WithEvent THEN 4 ELSE 0)
    + (IF m.flag = MsgTypeFlagBits_WithEvent
          /\ ~(IsDef(m.event) /\ Val(m.event) \in ConnectionScopeEvents)
         THEN 4 + (IF IsDef(m.sessionId) THEN Len(Utf8Encode(Val(m.sessionId)))
                   ELSE 0)
         ELSE 0)
    + (IF m.type \in ContentKinds /\ m.flag \in { MsgTypeFlagBits_PositiveSeq,
                                                   MsgTypeFlagBits_NegativeSeq }
         THEN 4 ELSE 0)
    + (IF m.type = MsgType_Error THEN 4 ELSE 0)
    + 4 + Len(m.payload)

\* C16: after the header marshalMessage writes the event (4 bytes) iff the
\* flag is WithEvent, the length-prefixed session id iff the flag is WithEvent
\* and the event is outside the connection scope, the sequence (4 bytes) iff
\* the kind bears content and the flag is PositiveSeq or NegativeSeq, the
\* error code (4 bytes) iff the kind is Error, and then the length-prefixed
\* payload, whatever optional fields the caller set.
C16_EncodeLayout ==
  cpc = "encoded" => Len(cfull) = LayoutLength(cmsg)

\* C17: unmarshalMessage starts to read the fields at offset 4 * headerSize
\* whatever the header size and the reserved bytes are: a frame decodes like
\* the frame with a 4-byte header and the same bytes from that offset on, and
\* a whole frame of a peer decodes to the Message it was laid out from.
C17_HeaderSizeSkipped ==
  /\ (cpc = "decoded" /\ Len(cbuf) >= 3) =>
       LET headerSize == cbuf[1] % 16
           canon == << (cbuf[1] \div 16) * 16 + 1, cbuf[2], cbuf[3], 0 >>
                      \o SubSeq(cbuf, 4 * headerSize + 1, Len(cbuf))
           r == unmarshalMessage(canon)
       IN
       /\ cres.err = r.err
       /\ r.err = "" =>
            /\ cres.msg = Def([Val(r.msg) EXCEPT !.headerSize = headerSize])
            /\ cres.off = r.off - 4 + 4 * headerSize
  /\ (cpc = "decoded" /\ cbuf = cfull /\ cmsg.headerSize >= 1
        /\ cmsg.type \in SixKinds
        /\ [cmsg EXCEPT !.headerSize = HeaderSizeBits_HeaderSize4] \in PeerMessages
        /\ \E fill \in ReservedFills :
             cfull = PeerFrame(cmsg, cmsg.headerSize, fill)) =>
       (cres.err = "" /\ cres.msg = Def(cmsg) /\ cres.off = Len(cfull))

\* a frame with a 60-byte header whose reserved bytes are all 255 was decoded
\* to a Message with a connect id
C17_Witness ==
  /\ cpc = "decoded" /\ cbuf = cfull /\ cres.err = ""
  /\ cmsg.headerSize = 15 /\ cfull[4] = 255 /\ cfull[60] = 255
  /\ Val(cres.msg).connectId = ConnectC

\* C18: for a Message of any of the six kinds the frame ends with the length
\* n of the payload as 4 bytes big-endian followed by the n bytes of the
\* payload.
C18_PayloadLast ==
  cpc = "encoded" =>
    LET n == Len(cmsg.payload) IN
    /\ Len(cfull) >= 4 + n
    /\ SubSeq(cfull, Len(cfull) - n - 3, Len(cfull))
         = << 0, 0, n \div 256, n % 256 >> \o cmsg.payload

\* an Error message with an event and a payload of one byte was marshalled
C18_Witness ==
  /\ cpc = "encoded" /\ cmsg.type = MsgType_Error
  /\ cmsg.flag = MsgTypeFlagBits_WithEvent /\ Len(cmsg.payload) = 1

\* the frame of C19: AudioOnlyServer, PositiveSeq, sequence 5, 16 bytes
AudioFrame16 ==
  << 17, 177, 16, 0 >> \o << 0, 0, 0, 5 >> \o << 0, 0, 0, 16 >> \o Audio16

\* C19: a frame of a content kind with flag PositiveSeq or NegativeSeq
\* decodes to the sequence in the 4 bytes after the header (signed,
\* big-endian) and the length-prefixed payload after them, with event,
\* sessionId, connectId and errorCode unset; the AudioOnlyServer frame with
\* PositiveSeq, sequence 5 and 16 bytes of payload decodes to sequence 5 and
\* a payload of 16 bytes.
C19_SequenceThenPayload ==
  /\ (cpc = "decoded" /\ Len(cbuf) >= 3
        /\ cbuf[2] \div 16 \in ContentKinds
        /\ cbuf[2] % 16 \in { MsgTypeFlagBits_PositiveSeq, MsgTypeFlagBits_NegativeSeq }
        /\ Len(cbuf) >= 4 * (cbuf[1] % 16) + 8
        /\ ~PastEnd(4 * (cbuf[1] % 16) + 8,
                    getUint32(cbuf, 4 * (cbuf[1] % 16) + 4), cbuf)) =>
       LET off == 4 * (cbuf[1] % 16)
           n == getUint32(cbuf, off + 4)[2]
       IN
       /\ cres.err = ""
       /\ Val(cres.msg).sequence = Def(getInt32(cbuf, off))
       /\ Val(cres.msg).payload = SubSeq(cbuf, off + 9, off + 8 + n)
       /\ Val(cres.msg).event = Undefined /\ Val(cres.msg).sessionId = Undefined
       /\ Val(cres.msg).connectId = Undefined /\ Val(cres.msg).errorCode = Undefined
  /\ (cpc = "decoded" /\ cbuf = AudioFrame16) =>
       /\ cres.err = ""
       /\ Val(cres.msg).sequence = Def(5) /\ Len(Val(cres.msg).payload) = 16

\* the frame of C19 was decoded
C19_Witness ==
  /\ cpc = "decoded" /\ cbuf = AudioFrame16
  /\ Val(cres.msg).type = MsgType_AudioOnlyServer

\* C20: marshalMessage and unmarshalMessage throw UnsupportedMessageType for
\* every kind outside the six, producing no bytes and no Message, and
\* dispatch for each of the six.
C20_UnsupportedMessageType ==
  [][ /\ (cpc = "msg" /\ cpc' # "msg") =>
           IF cmsg.type \in SixKinds
             THEN cpc' = "encoded" /\ Len(cbuf') >= 4
             ELSE /\ cpc' = "threw" /\ cbuf' = <<>>
                  /\ cres'.err = "unsupported message type"
                  /\ cres'.msg = Undefined
      /\ (cpc # "decoded" /\ cpc' = "decoded" /\ Len(cbuf) >= 3) =>
           IF cbuf[2] \div 16 \in SixKinds
             THEN cres'.err # "unsupported message type"
             ELSE /\ cres'.err = "unsupported message type"
                  /\ cres'.msg = Undefined ]_vars

\* a frame of the unassigned kind 3 was refused by unmarshalMessage
C20_Witness ==
  /\ cpc = "decoded" /\ Len(cbuf) >= 3 /\ cbuf[2] \div 16 = 3
  /\ cres.err = "unsupported message type"

-----------------------------------------------------------------------------
(* Properties of the decoder's failures, checked under WireSpec *)

\* C21: unmarshalMessage fails with FrameTooShort exactly when the buffer has
\* fewer than 3 bytes; a buffer of 3 or more bytes never gives FrameTooShort:
\* it gives a Message, or fails with TruncatedField or UnsupportedMessageType.
C21_FrameTooShort ==
  cpc = "decoded" =>
    /\ IsFrameTooShort(cres.err) <=> Len(cbuf) < 3
    /\ Len(cbuf) >= 3 =>
         \/ cres.err = "" /\ IsDef(cres.msg)
         \/ IsTruncatedField(cres.err)
         \/ cres.err = "unsupported message type"

\* a buffer of exactly 3 bytes was decoded and a field was found truncated
C21_Witness ==
  cpc = "decoded" /\ Len(cbuf) = 3 /\ IsTruncatedField(cres.err)

-----------------------------------------------------------------------------
(* Properties of the 'close' listener, checked under Spec *)

\* C22: 'close' discards the queue and the waiter list of the connection: a
\* Message queued and undelivered at close time is never returned by a
\* ReceiveMessage issued after the close, and no waiter registered before
\* the close is fulfilled after it.  From the close on no call becomes
\* resolved: neither a new call nor one that was pending.
C22_CloseDiscards ==
  [][ ~wsOpen' =>
        \A k \in 1 .. Len(calls') :
          calls'[k].st = "resolved" =>
            (k <= Len(calls) /\ calls[k].st = "resolved") ]_vars

\* the first call took frame A, frame B was queued (a second call issued
\* before the close would have taken it), the connection closed, and the
\* second call, issued after the close, is pending
C22_Witness ==
  /\ ~wsOpen /\ errors = 0 /\ thrown = <<>>
  /\ arrived = << FrameAudioA, FrameAudioB >>
  /\ Len(calls) = 2
  /\ calls[1].st = "resolved" /\ calls[1].msg = unmarshalMessage(FrameAudioA).msg
  /\ calls[2].st = "pending"

-----------------------------------------------------------------------------
(* Properties of a close under the streaming loop, checked under LoopSpec *)

\* C23: 'close' does not reject pending receivers: a ReceiveMessage that is
\* suspended when the connection closes, with no error event before, is
\* neither resolved nor rejected by the close and stays pending for ever, and
\* a streaming loop suspended in it never returns and never throws.
C23_CloseLeavesPending ==
  \A id \in Range(orphaned) :
    /\ calls[id].st = "pending"
    /\ id = lcall => (lpc = "await" /\ lresult.st = "none" /\ closeCalls = 0)

\* the connection closed while the loop was suspended in ReceiveMessage
C23_Witness ==
  /\ ~wsOpen /\ errors = 0
  /\ lpc = "await" /\ lcall \in Range(orphaned)
  /\ calls[lcall].st = "pending"

-----------------------------------------------------------------------------
(* Properties of the send helpers' completion, checked under SendSpec *)

\* C24: every send helper completes successfully only after the transport
\* reported the write as done without error, and fails with the transport's
\* error whenever the write fails: its promise is unsettled while the write
\* is outstanding, resolved exactly when the callback got no error, and
\* rejected with the very error the callback got otherwise.
C24_SendFollowsWrite ==
  /\ Len(sendLog) = Len(writeLog)
  /\ Len(sendLog) = Len(sent) - (IF sendPc = "writing" THEN 1 ELSE 0)
  /\ \A i \in 1 .. Len(sendLog) :
       IF IsDef(writeLog[i].error)
         THEN sendLog[i] = "rejected" /\ writeLog[i].reason = writeLog[i].error
         ELSE sendLog[i] = "resolved"

\* a TaskRequest whose write failed was rejected, and a StartConnection whose
\* write was done was resolved
C24_Witness ==
  \E i, j \in 1 .. Len(sendLog) :
    /\ sent[i].helper = "TaskRequest" /\ sendLog[i] = "rejected"
    /\ writeLog[i].error = Def("ECONNRESET")
    /\ sent[j].helper = "StartConnection" /\ sendLog[j] = "resolved"

-----------------------------------------------------------------------------
(* Properties of the Messages the send helpers build, checked under SendSpec *)

\* the helpers that send an event, and the event of each
EventHelpers ==
  { "StartConnection", "FinishConnection", "StartSession", "FinishSession",
    "CancelSession", "TaskRequest" }

HelperEvent(helper) ==
  CASE helper = "StartConnection" -> EventType_StartConnection
    [] helper = "FinishConnection" -> EventType_FinishConnection
    [] helper = "StartSession" -> EventType_StartSession
    [] helper = "FinishSession" -> EventType_FinishSession
    [] helper = "CancelSession" -> EventType_CancelSession
    [] helper = "TaskRequest" -> EventType_TaskRequest

\* a length-prefixed byte string on the wire
Prefixed(bytes) == setUint32(U32(Len(bytes))) \o bytes

\* C25: every send helper builds a Message with the same fixed version,
\* headerSize, serialization JSON and compression None; the helpers that send
\* an event use the kind FullClientRequest and the flag WithEvent with their
\* own event; StartConnection and FinishConnection put no sessionId on the
\* wire and carry the payload "{}"; StartSession, CancelSession, FinishSession
\* and TaskRequest carry the caller's sessionId; FullClientRequest carries no
\* event (flag NoSeq).
C25_HelperMessages ==
  \A i \in 1 .. Len(sent) :
    LET helper == sent[i].helper
        args == sent[i].args
        msg == sent[i].msg
        data == sent[i].data
    IN
    /\ msg.version = VersionBits_Version1
    /\ msg.headerSize = HeaderSizeBits_HeaderSize4
    /\ msg.serialization = SerializationBits_JSON
    /\ msg.compression = CompressionBits_None
    /\ SubSeq(data, 1, 4) = << 17, msg.type * 16 + msg.flag, 16, 0 >>
    /\ helper \in EventHelpers =>
         /\ msg.type = MsgType_FullClientRequest
         /\ msg.flag = MsgTypeFlagBits_WithEvent
         /\ msg.event = Def(HelperEvent(helper))
         /\ SubSeq(data, 5, 8) = setInt32(HelperEvent(helper))
    /\ helper \in { "StartConnection", "FinishConnection" } =>
         /\ msg.payload = EmptyJson
         /\ SubSeq(data, 9, Len(data)) = Prefixed(EmptyJson)
    /\ helper \in { "StartSession", "CancelSession", "FinishSession",
                    "TaskRequest" } =>
         /\ IsDef(args.sessionId) /\ msg.sessionId = args.sessionId
         /\ SubSeq(data, 9, Len(data)) =
              Prefixed(Utf8Encode(Val(args.sessionId))) \o Prefixed(msg.payload)
    /\ helper = "FullClientRequest" =>
         /\ msg.type = MsgType_FullClientRequest
         /\ msg.flag = MsgTypeFlagBits_NoSeq
         /\ ~IsDef(msg.event)
         /\ SubSeq(data, 5, Len(data)) = Prefixed(Val(args.payload))

\* a CancelSession for the session "s" and a FinishConnection were sent
C25_Witness ==
  \E i, j \in 1 .. Len(sent) :
    /\ sent[i].helper = "CancelSession" /\ sent[i].args.sessionId = SessionS
    /\ sent[j].helper = "FinishConnection"

-----------------------------------------------------------------------------
(* Properties of field presence and field order, checked under WireSpec *)

\* the optional fields a Message has set
FieldsSet(m) ==
  { f \in { "event", "sessionId", "connectId", "sequence", "errorCode" } :
      IsDef(m[f]) }

\* frames whose session id or connect id has the length 0
ZeroLengthFrames ==
  { ServerEvent(MsgType_FullServerResponse, EventType_SessionFinished,
                Def(<<>>), Undefined, EmptyJson),
    ServerEvent(MsgType_FullServerResponse, EventType_ConnectionStarted,
                Undefined, Def(<<>>), EmptyJson) }

\* C26: field presence is determined by (kind, flag, event) and never by a
\* field's value: two frames of the same kind, flag and event decode to
\* Messages with the same set of optional fields, whatever lengths and
\* values the frames carry.
C26_PresenceByKindFlagEvent ==
  (cpc = "decoded" /\ cres.err = "") =>
    \A f \in ZeroLengthFrames :
      LET r == unmarshalMessage(f) IN
      ( /\ r.err = ""
        /\ Val(r.msg).type = Val(cres.msg).type
        /\ Val(r.msg).flag = Val(cres.msg).flag
        /\ Val(r.msg).event = Val(cres.msg).event )
      => FieldsSet(Val(r.msg)) = FieldsSet(Val(cres.msg))

\* C27: the difference between the writers' order (event, sessionId,
\* sequence or errorCode, payload) and the readers' order (sequence or
\* errorCode, event, sessionId, connectId, payload) matters only for a
\* Message of kind Error with flag WithEvent: for every other Message the
\* presence rules permit, the frame marshalMessage emits is the layout
\* unmarshalMessage expects, so that it reads the whole frame, field by
\* field, into the Message that was written.  Checked under CodecSpec.
C27_OrderAsymmetryScope ==
  ( /\ cpc = "decoded" /\ cbuf = cfull
    /\ cmsg \in PermittedMessages
    /\ ~(cmsg.flag = MsgTypeFlagBits_WithEvent /\ cmsg.type = MsgType_Error) )
  => (cres.err = "" /\ cres.off = Len(cfull) /\ cres.msg = Def(cmsg))

\* C28: for every Message with a 4-bit headerSize the frame marshalMessage
\* returns begins with the 3-byte base header (byte0 = version<<4 |
\* headerSize, byte1 = kind<<4 | flag, byte2 = serialization<<4 |
\* compression) and its header region is exactly headerSize*4 bytes long,
\* the first field following it; the base header is always present.
C28_BaseHeaderPresent ==
  cpc = "encoded" =>
    /\ Len(cfull) >= 3
    /\ cfull[1] = cmsg.version * 16 + cmsg.headerSize
    /\ cfull[2] = cmsg.type * 16 + cmsg.flag
    /\ cfull[3] = cmsg.serialization * 16 + cmsg.compression
    /\ Len(cfull) >= 4 * cmsg.headerSize
    /\ SubSeq(cfull, 4 * cmsg.headerSize + 1, Len(cfull))
         = RunWriters(getWriters(cmsg).writers, cmsg)

\* C29: sequence and event are mutually exclusive: no Message that
\* unmarshalMessage returns has both sequence and event set, and no frame
\* that marshalMessage returns holds both a sequence field and an event
\* field: after the header a frame with the flag WithEvent holds the event,
\* the session id, the error code of an Error and the payload, and any other
\* frame holds no event.
C29_SequenceEventExclusive ==
  /\ (cpc = "decoded" /\ cres.err = "") =>
       ~(IsDef(Val(cres.msg).sequence) /\ IsDef(Val(cres.msg).event))
  /\ cpc = "encoded" =>
       SubSeq(cfull, 4 * cmsg.headerSize + 1, Len(cfull)) =
         IF cmsg.flag = MsgTypeFlagBits_WithEvent
           THEN writeEvent(cmsg) \o writeSessionId(cmsg)
                  \o (IF cmsg.type = MsgType_Error THEN writeErrorCode(cmsg)
                      ELSE <<>>)
                  \o Prefixed(cmsg.payload)
           ELSE (IF cmsg.type = MsgType_Error THEN writeErrorCode(cmsg)
                 ELSE IF cmsg.flag \in { MsgTypeFlagBits_PositiveSeq,
                                         MsgTypeFlagBits_NegativeSeq }
                   THEN writeSequence(cmsg)
                 ELSE <<>>)
                  \o Prefixed(cmsg.payload)

\* a Message on which the caller set both an event and a sequence number
\* was marshalled with the flag WithEvent
C29_Witness ==
  /\ cpc = "encoded"
  /\ IsDef(cmsg.event) /\ IsDef(cmsg.sequence)
  /\ cmsg.type = MsgType_AudioOnlyServer
  /\ cmsg.flag = MsgTypeFlagBits_WithEvent

-----------------------------------------------------------------------------
(* Properties of the order of the audio frames, checked under LoopSpec *)

\* the loop has gone through call k and its Message is an audio frame
HandledAudio(k) ==
  Handled(k) /\ Val(calls[k].msg).type = MsgType_AudioOnlyServer

\* C30: while the session is streaming, the sequence numbers of the content
\* frames the loop accepts increase whenever they are present: an audio
\* frame whose sequence number is not greater than that of an audio frame
\* accepted before it is not appended to the audio buffer (the buffer then
\* holds fewer chunks than audio frames were handled).
C30_SequenceMonotonic ==
  \A j, k \in 1 .. Len(calls) :
    ( /\ j < k /\ HandledAudio(j) /\ HandledAudio(k)
      /\ IsDef(Val(calls[j].msg).sequence) /\ IsDef(Val(calls[k].msg).sequence)
      /\ Val(Val(calls[k].msg).sequence) <= Val(Val(calls[j].msg).sequence) )
    => Len(audioChunks) < Cardinality({ i \in 1 .. Len(calls) : HandledAudio(i) })

-----------------------------------------------------------------------------
(* Properties of the session lifecycle, checked under LoopSpec *)

\* call k returned a Message that carries the event e
Received(k, e) ==
  /\ k \in 1 .. Len(calls) /\ calls[k].st = "resolved"
  /\ Val(calls[k].msg).event = Def(e)

\* C31: the session lifecycle is followed in order: the client consumes
\* streamed audio only after StartConnection was sent, ConnectionStarted was
\* received, StartSession was sent and SessionStarted was received, in that
\* order, and it reaches Finished (the synthesis returns) only on receiving
\* SessionFinished.
C31_LifecycleOrder ==
  /\ audioChunks # <<>> =>
       \E a, b \in 1 .. Len(sent), i, j \in 1 .. Len(calls) :
         /\ a < b /\ i < j
         /\ sent[a].helper = "StartConnection" /\ sent[b].helper = "StartSession"
         /\ Received(i, EventType_ConnectionStarted)
         /\ Received(j, EventType_SessionStarted)
         /\ \A k \in 1 .. Len(calls) : HandledAudio(k) => j < k
  /\ lpc = "done" => Received(lcall, EventType_SessionFinished)

-----------------------------------------------------------------------------
(* messageQueues and messageCallbacks with two sockets.  The Maps are keyed *)
(* by the socket object; every listener that setupMessageHandler(ws)        *)
(* attaches and every ReceiveMessage(ws) call looks its arrays up under     *)
(* that key.  A record of pairCalls is [ws, st, msg].                       *)

MaxPairCalls == 2
MaxPairArrivals == 2

\* a Map with one entry that every socket shares
MapKeyShared(ws) == "A"

\* the key of a socket in a Map: the socket itself
MapKey(ws) == ws

\* map.has(ws), map.get(ws)!, map.set(ws, v), map.delete(ws)
MapHas(map, ws) == IsDef(map[MapKey(ws)])
MapGet(map, ws) == Val(map[MapKey(ws)])
MapSet(map, ws, v) == [map EXCEPT ![MapKey(ws)] = Def(v)]
MapDelete(map, ws) == [map EXCEPT ![MapKey(ws)] = Undefined]

PairFrames == { FrameAudioA, FrameAudioB }

PairFrame ==
  UNCHANGED << codecVars, demuxVars, waitVars, sendVars, loopVars, dialogueVars >>

\* ReceiveMessage(ws): setupMessageHandler(ws), then the promise executor
PairReceive ==
  /\ Len(pairCalls) < MaxPairCalls
  /\ \E ws \in Sockets :
       LET has == MapHas(messageQueues, ws)
           queues == IF has THEN messageQueues ELSE MapSet(messageQueues, ws, <<>>)
           cbs == IF has THEN messageCallbacks ELSE MapSet(messageCallbacks, ws, <<>>)
           id == Len(pairCalls) + 1
           call == [ ws |-> ws, st |-> "pending", msg |-> Undefined ]
       IN
       /\ IF QueueHasMessage(MapGet(queues, ws))
            THEN /\ pairCalls' = Append(pairCalls,
                        [call EXCEPT !.st = "resolved",
                                     !.msg = Def(Head(MapGet(queues, ws)))])
                 /\ messageQueues' = MapSet(queues, ws, Tail(MapGet(queues, ws)))
                 /\ messageCallbacks' = cbs
                 /\ UNCHANGED pairListeners
            ELSE /\ pairCalls' = Append(pairCalls, call)
                 /\ messageQueues' = queues
                 /\ messageCallbacks' = MapSet(cbs, ws, Append(MapGet(cbs, ws), id))
                 /\ pairListeners' = pairListeners \cup { id }
       /\ pairEvent' = [ ws |-> ws, kind |-> "ReceiveMessage" ]
  /\ UNCHANGED << pairOpen, pairArrived >>
  /\ PairFrame

\* socket ws emits 'message': its listener, attached when the key was set,
\* decodes the frame and hands it to the oldest waiter or queues it
PairArrive ==
  /\ Len(pairArrived) < MaxPairArrivals
  /\ \E ws \in pairOpen, f \in PairFrames :
       /\ pairArrived' = Append(pairArrived, [ ws |-> ws, frame |-> f ])
       /\ pairEvent' = [ ws |-> ws, kind |-> "message" ]
       /\ IF ~MapHas(messageQueues, ws)
            THEN UNCHANGED << messageQueues, messageCallbacks, pairCalls,
                              pairListeners >>
            ELSE LET r == unmarshalMessage(f)
                     cbs == MapGet(messageCallbacks, ws)
                 IN
                 IF HasWaiter(cbs)
                   THEN /\ messageCallbacks' = MapSet(messageCallbacks, ws, Tail(cbs))
                        /\ pairListeners' = pairListeners \ { Head(cbs) }
                        /\ pairCalls' = [pairCalls EXCEPT ![Head(cbs)] =
                                           Settle(@, "resolved", r.msg, 0)]
                        /\ UNCHANGED messageQueues
                   ELSE /\ messageQueues' =
                             MapSet(messageQueues, ws,
                                    Append(MapGet(messageQueues, ws), Val(r.msg)))
                        /\ UNCHANGED << messageCallbacks, pairCalls, pairListeners >>
  /\ UNCHANGED pairOpen
  /\ PairFrame

\* socket ws emits 'error': the errorHandlers registered on ws run
PairError ==
  /\ \E ws \in pairOpen :
       LET mine == { id \in pairListeners : pairCalls[id].ws = ws } IN
       /\ mine # {}
       /\ pairListeners' = pairListeners \ mine
       /\ pairCalls' = [ k \in 1 .. Len(pairCalls) |->
                           IF k \in mine
                             THEN Settle(pairCalls[k], "rejected", Undefined, 0)
                             ELSE pairCalls[k] ]
       /\ messageCallbacks' =
            MapSet(messageCallbacks, ws,
                   SelectSeq(MapGet(messageCallbacks, ws), LAMBDA id : id \notin mine))
       /\ pairEvent' = [ ws |-> ws, kind |-> "error" ]
  /\ UNCHANGED << messageQueues, pairOpen, pairArrived >>
  /\ PairFrame

\* socket ws emits 'close': the 'close' listener deletes the key
PairClose ==
  /\ \E ws \in pairOpen :
       /\ pairOpen' = pairOpen \ { ws }
       /\ pairEvent' = [ ws |-> ws, kind |-> "close" ]
       /\ IF MapHas(messageQueues, ws)
            THEN /\ messageQueues' = MapDelete(messageQueues, ws)
                 /\ messageCallbacks' = MapDelete(messageCallbacks, ws)
            ELSE UNCHANGED << messageQueues, messageCallbacks >>
  /\ UNCHANGED << pairListeners, pairCalls, pairArrived >>
  /\ PairFrame

PairNext == PairReceive \/ PairArrive \/ PairError \/ PairClose

PairSpec == Init /\ [][PairNext]_vars

\* C32: the queue and the waiter list are connection-scoped: a frame
\* arrival, a ReceiveMessage call, an error or a close on one socket never
\* changes the queue or the waiter list of the other socket, and a
\* ReceiveMessage on a socket only ever returns the Message of a frame that
\* arrived on that socket.
C32_ConnectionScoped ==
  [][ /\ \A ws \in Sockets \ { pairEvent'.ws } :
           /\ messageQueues'[ws] = messageQueues[ws]
           /\ messageCallbacks'[ws] = messageCallbacks[ws]
      /\ \A k \in 1 .. Len(pairCalls') :
           pairCalls'[k].st = "resolved" =>
             \E n \in 1 .. Len(pairArrived') :
               /\ pairArrived'[n].ws = pairCalls'[k].ws
               /\ unmarshalMessage(pairArrived'[n].frame).msg = pairCalls'[k].msg
    ]_vars

\* a Message is queued on A, nothing has arrived on B, and a ReceiveMessage
\* on B is pending
C32_Witness ==
  /\ IsDef(messageQueues["A"]) /\ Len(Val(messageQueues["A"])) > 0
  /\ \A n \in 1 .. Len(pairArrived) : pairArrived[n].ws = "A"
  /\ \E k \in 1 .. Len(pairCalls) :
       pairCalls[k].ws = "B" /\ pairCalls[k].st = "pending"

-----------------------------------------------------------------------------
(* Integer widths of the wire format *)

\* the 16-bit halves of the 4 bytes at offset off, most significant byte first
HighHalf(data, off) == data[off + 1] * 256 + data[off + 2]
LowHalf(data, off) == data[off + 3] * 256 + data[off + 4]

\* the 4 bytes are the two's complement of the int32 x, big-endian
IsInt32BE(bytes, x) ==
  /\ Len(bytes) = 4
  /\ HighHalf(bytes, 0) = (x \div 65536) % 65536
  /\ LowHalf(bytes, 0) = x % 65536

\* the 4 bytes are the uint32 v, big-endian
IsUint32BE(bytes, v) ==
  /\ Len(bytes) = 4
  /\ HighHalf(bytes, 0) = v[1]
  /\ LowHalf(bytes, 0) = v[2]

\* C33: event and sequence are written and read as 32-bit signed big-endian
\* integers, errorCode and the length prefixes as 32-bit unsigned big-endian
\* integers; a value written by a writer is read back unchanged by the
\* matching reader, a negative sequence and an errorCode of 2^31 or more
\* included, and a whole frame whose fields the decoder reads in the order
\* the encoder wrote them (a frame without an event) decodes to the same
\* sequence or errorCode.
C33_IntegerWidths ==
  cpc = "decoded" /\ cbuf = cfull =>
    /\ IsDef(cmsg.event) =>
         /\ IsInt32BE(writeEvent(cmsg), Val(cmsg.event))
         /\ readEvent(InvalidKindMessage, writeEvent(cmsg), 0).msg.event = cmsg.event
    /\ IsDef(cmsg.sequence) =>
         /\ IsInt32BE(writeSequence(cmsg), Val(cmsg.sequence))
         /\ readSequence(InvalidKindMessage, writeSequence(cmsg), 0).msg.sequence
              = cmsg.sequence
         /\ ~IsDef(cmsg.event) =>
              cres.err = "" /\ Val(cres.msg).sequence = cmsg.sequence
    /\ IsDef(cmsg.errorCode) =>
         /\ IsUint32BE(writeErrorCode(cmsg), Val(cmsg.errorCode))
         /\ readErrorCode(InvalidKindMessage, writeErrorCode(cmsg), 0).msg.errorCode
              = cmsg.errorCode
         /\ ~IsDef(cmsg.event) =>
              cres.err = "" /\ Val(cres.msg).errorCode = cmsg.errorCode
    /\ IsUint32BE(SubSeq(writePayload(cmsg), 1, 4), U32(Len(cmsg.payload)))
    /\ getUint32(writePayload(cmsg), 0) = U32(Len(cmsg.payload))
    /\ IsDef(cmsg.sessionId) /\ writeSessionId(cmsg) # <<>> =>
         /\ IsUint32BE(SubSeq(writeSessionId(cmsg), 1, 4),
                       U32(Len(Utf8Encode(Val(cmsg.sessionId)))))
         /\ getUint32(writeSessionId(cmsg), 0)
              = U32(Len(Utf8Encode(Val(cmsg.sessionId))))

\* a frame with the sequence -1 or with the errorCode 2^31 + 1 has been
\* decoded to a Message with that value
C33_Witness ==
  /\ cpc = "decoded" /\ cbuf = cfull /\ cres.err = ""
  /\ \/ cmsg.sequence = Def(-1) /\ Val(cres.msg).sequence = Def(-1)
     \/ cmsg.errorCode = Def(<< 32768, 1 >>)
          /\ Val(cres.msg).errorCode = Def(<< 32768, 1 >>)

-----------------------------------------------------------------------------
(* ReceiveMessage on a queue that holds messages *)

\* C34: a ReceiveMessage call made while the queue holds a message is
\* resolved before it returns, with the oldest queued Message; the rest of
\* the queue is left in order and neither callbacks nor the 'error'
\* listeners change.  A call is left pending, with its resolver and its
\* errorHandler registered, only when the queue is empty.
C34_NonEmptyQueueNoSuspend ==
  [][ Len(calls') = Len(calls) + 1 =>
        LET id == Len(calls) + 1 IN
        IF Len(queue) > 0
          THEN /\ calls'[id].st = "resolved"
               /\ calls'[id].msg = Def(queue[1])
               /\ queue' = SubSeq(queue, 2, Len(queue))
               /\ callbacks' = callbacks
               /\ errListeners' = errListeners
          ELSE /\ calls'[id].st = "pending"
               /\ queue' = queue
               /\ callbacks' = Append(callbacks, id)
               /\ errListeners' = Append(errListeners, id) ]_vars

\* the second call found two messages queued: it took the older one, the
\* newer one is still queued and nothing is registered
C34_Witness ==
  /\ Len(calls) = 2 /\ calls[2].st = "resolved"
  /\ calls[2].msg = unmarshalMessage(FrameAudioA).msg
  /\ queue = << Val(unmarshalMessage(FrameAudioB).msg) >>
  /\ callbacks = <<>> /\ errListeners = <<>>

-----------------------------------------------------------------------------
(* WaitForEvent and the message it inspected *)

\* the i-th WaitForEvent threw "Unexpected message"
ThrewUnexpected(i) ==
  waits[i].st = "threw" /\ waits[i].err.name = "Unexpected message"

\* C35: WaitForEvent takes the message it inspects off the connection
\* whatever the outcome.  The step in which it throws "Unexpected message"
\* changes neither the queue nor the waiters, and the ReceiveMessage of the
\* WaitForEvent after it resolves with the frame that arrived after the
\* mismatching one.
C35_MismatchConsumes ==
  [][ /\ \A i \in 1 .. Len(waits) :
           waits[i].st = "awaiting" /\ ThrewUnexpected(i)' =>
             queue' = queue /\ callbacks' = callbacks /\ calls' = calls
      /\ \A i \in 1 .. Len(waits') - 1 :
           ThrewUnexpected(i)' /\ calls'[waits'[i + 1].call].st = "resolved" =>
             \E a \in 1 .. Len(arrived') - 1 :
               /\ unmarshalMessage(arrived'[a]).msg = calls'[waits'[i].call].msg
               /\ unmarshalMessage(arrived'[a + 1]).msg
                    = calls'[waits'[i + 1].call].msg ]_vars

\* SessionFinished arrived where ConnectionStarted was expected and the first
\* WaitForEvent threw; the second WaitForEvent returned the ConnectionStarted
\* frame that arrived next
C35_Witness ==
  /\ Len(waits) = 2 /\ ThrewUnexpected(1)
  /\ calls[waits[1].call].msg = unmarshalMessage(FrameSessionFinished).msg
  /\ waits[2].st = "returned"
  /\ waits[2].msg = unmarshalMessage(FrameConnectionStarted).msg
  /\ arrived = << FrameSessionFinished, FrameConnectionStarted >>

\* C36: WaitForEvent returns only a Message that carries an event field equal
\* to the expected event (and is of the expected kind).  A Message without
\* an event field never matches, the expected event None (0) included: the
\* call throws "Unexpected message".
C36_NoEventNeverMatches ==
  \A i \in 1 .. Len(waits) :
    LET c == calls[waits[i].call] IN
    /\ waits[i].st = "returned" =>
         /\ IsDef(Val(waits[i].msg).event)
         /\ Val(Val(waits[i].msg).event) = waits[i].eventType
         /\ Val(waits[i].msg).type = waits[i].msgType
    /\ waits[i].st # "awaiting" /\ c.st = "resolved" /\ ~IsDef(Val(c.msg).event) =>
         ThrewUnexpected(i)

\* an audio frame without an event arrived for a WaitForEvent that expected
\* the kind AudioOnlyServer and the event None, and the call threw
C36_Witness ==
  \E i \in 1 .. Len(waits) :
    /\ waits[i].msgType = MsgType_AudioOnlyServer
    /\ waits[i].eventType = EventType_None
    /\ calls[waits[i].call].msg = unmarshalMessage(FrameAudioB).msg
    /\ Val(calls[waits[i].call].msg).type = MsgType_AudioOnlyServer
    /\ ~IsDef(Val(calls[waits[i].call].msg).event)
    /\ ThrewUnexpected(i)

-----------------------------------------------------------------------------
(* Bytes after the payload *)

\* C37: unmarshalMessage ignores the bytes that follow the payload.  For a
\* frame f that unmarshalMessage decodes and bytes x, the decode of f
\* followed by x returns, with the Message and the final offset of the
\* decode of f: the trailing bytes are no error.
C37_TrailingBytesIgnored ==
  cpc = "decoded" /\ Len(cbuf) > Len(cfull) /\ unmarshalMessage(cfull).err = "" =>
    /\ SubSeq(cbuf, 1, Len(cfull)) = cfull
    /\ cres.err = ""
    /\ cres.msg = unmarshalMessage(cfull).msg
    /\ cres.off = unmarshalMessage(cfull).off
    /\ cres.off <= Len(cfull)

\* a frame with the payload "{}" was decoded with five bytes behind it
C37_Witness ==
  /\ cpc = "decoded" /\ cbuf = cfull \o << 255, 255, 255, 255, 1 >>
  /\ unmarshalMessage(cfull).err = ""
  /\ cres.err = "" /\ Val(cres.msg).payload = << 123, 125 >>
  /\ cres.off = Len(cfull)

-----------------------------------------------------------------------------
(* The socket of synthesizeSingle *)

\* C38: synthesizeSingle requests the close of the socket it created on
\* every path on which it ends: the step in which the call returns or throws
\* (the loop ended normally, an unknown kind, no audio, a failed write, a
\* connection error, a failed connect) calls ws.close(), and a call that
\* has ended has called it.
C38_CloseOnEveryPath ==
  [][ /\ lpc \notin { "done", "failed" } /\ lpc' \in { "done", "failed" } =>
           closeCalls' = closeCalls + 1
      /\ lpc' \in { "done", "failed" } => closeCalls' >= 1 ]_vars

\* the connection failed while the loop was waiting for a frame, after audio
\* had been received, and the call threw with the close requested
C38_Witness ==
  /\ lpc = "failed" /\ lresult.err = "connection error"
  /\ audioChunks # <<>> /\ closeCalls = 1

-----------------------------------------------------------------------------
(* synthesizeDialogue: one synthesizeSingle per item of the dialogue, each  *)
(* awaited before the next, with a delay between two items.               *)
(*   dialogue  the items, each [speaker, text]                              *)
(*   dpc       "idle" | "synth" | "delay" | "returned" | "threw"            *)
(*   di        the loop variable i                                          *)
(*   segments  the local array segments                                     *)
(*   synths    the synthesizeSingle calls made, each [item, st] with st     *)
(*             "running" | "returned" | "threw"                             *)
(*   dresult   what the call settled to: [st, segments, item]               *)

MaxDialogue == 3

DialogueItems ==
  { [ speaker |-> "host", text |-> << 97 >> ],
    [ speaker |-> "guest", text |-> << 98 >> ] }

Dialogues ==
  UNION { [ 1 .. n -> DialogueItems ] : n \in 0 .. MaxDialogue }

\* the audio a synthesizeSingle call returns
SegmentAudio == { AudioA, AudioB }

\* what synthesizeSingle returns: { speaker, text, audioData, timestamp }
AudioSegment(item, audioData) ==
  [ speaker |-> item.speaker, text |-> item.text, audioData |-> audioData ]

DialogueInit ==
  /\ CodecIdle /\ DemuxIdle /\ WaitIdle /\ SendIdle /\ LoopIdle /\ PairIdle
  /\ dialogue \in Dialogues
  /\ dpc = "idle" /\ di = 0
  /\ segments = <<>> /\ synths = <<>> /\ dresult = Undefined

\* a catch block that logs the failure and goes on with the next item
catchContinues(i) == [ rethrow |-> FALSE, item |-> i + 1 ]

\* catch (error) { throw new Error(`第 ${i + 1} 段对话合成失败: ...`) }
catchBlock(i) == [ rethrow |-> TRUE, item |-> i + 1 ]

\* the loop from its test on, for the index i: the call of synthesizeSingle
\* for dialogue[i], or, after the last item, return segments
LoopFrom(i, segs, made) ==
  /\ di' = i
  /\ segments' = segs
  /\ IF i < Len(dialogue)
       THEN /\ synths' = Append(made, [ item |-> i + 1, st |-> "running" ])
            /\ dpc' = "synth"
            /\ UNCHANGED dresult
       ELSE /\ synths' = made
            /\ dpc' = "returned"
            /\ dresult' = Def([ st |-> "returned", segments |-> segs, item |-> 0 ])

\* synthesizeDialogue(dialogue) up to its first await
SynthesizeDialogue ==
  /\ dpc = "idle"
  /\ LoopFrom(0, <<>>, synths)
  /\ UNCHANGED << dialogue, codecVars, demuxVars, waitVars, sendVars, loopVars,
                  pairVars >>

\* the awaited synthesizeSingle returns a segment: segments.push(segment),
\* then the delay before the next item, or the end of the loop
SynthesisReturns ==
  /\ dpc = "synth"
  /\ \E audioData \in SegmentAudio :
       LET segs == Append(segments, AudioSegment(dialogue[di + 1], audioData))
           done == [synths EXCEPT ![Len(synths)].st = "returned"]
       IN
       IF di < Len(dialogue) - 1
         THEN /\ segments' = segs /\ synths' = done
              /\ dpc' = "delay"
              /\ UNCHANGED << di, dresult >>
         ELSE LoopFrom(di + 1, segs, done)
  /\ UNCHANGED << dialogue, codecVars, demuxVars, waitVars, sendVars, loopVars,
                  pairVars >>

\* await this.delay(100) is over: i++ and the next pass of the loop
DelayElapses ==
  /\ dpc = "delay"
  /\ LoopFrom(di + 1, segments, synths)
  /\ UNCHANGED << dialogue, codecVars, demuxVars, waitVars, sendVars, loopVars,
                  pairVars >>

\* the awaited synthesizeSingle throws: the catch block
SynthesisThrows ==
  /\ dpc = "synth"
  /\ LET failed == [synths EXCEPT ![Len(synths)].st = "threw"]
         c == catchBlock(di)
     IN
     IF c.rethrow
       THEN /\ synths' = failed
            /\ dpc' = "threw"
            /\ dresult' = Def([ st |-> "threw", segments |-> <<>>, item |-> c.item ])
            /\ UNCHANGED << di, segments >>
       ELSE LoopFrom(di + 1, segments, failed)
  /\ UNCHANGED << dialogue, codecVars, demuxVars, waitVars, sendVars, loopVars,
                  pairVars >>

DialogueNext ==
  SynthesizeDialogue \/ SynthesisReturns \/ DelayElapses \/ SynthesisThrows

DialogueSpec == DialogueInit /\ [][DialogueNext]_vars

\* C39: synthesizeDialogue runs its syntheses one after another: at most one
\* synthesizeSingle is running, the calls are made for the items in order,
\* each after the one before it returned.  A call that returns returns
\* exactly one segment per item, in dialogue order.  At the first synthesis
\* that fails it throws: no synthesis was started for a later item and no
\* list of segments is returned.
C39_SequentialDialogue ==
  /\ \A k \in 1 .. Len(synths) :
       /\ synths[k].item = k
       /\ k < Len(synths) => synths[k].st = "returned"
       /\ synths[k].st = "running" => dpc = "synth"
  /\ Len(synths) <= Len(dialogue)
  /\ dpc = "returned" =>
       /\ IsDef(dresult) /\ Val(dresult).st = "returned"
       /\ Len(Val(dresult).segments) = Len(dialogue)
       /\ Len(synths) = Len(dialogue)
       /\ \A k \in 1 .. Len(dialogue) :
            /\ synths[k].st = "returned"
            /\ Val(dresult).segments[k].speaker = dialogue[k].speaker
            /\ Val(dresult).segments[k].text = dialogue[k].text
  /\ (\E k \in 1 .. Len(synths) : synths[k].st = "threw") =>
       /\ dpc = "threw"
       /\ synths[Len(synths)].st = "threw"
       /\ IsDef(dresult) /\ Val(dresult).st = "threw"
       /\ Val(dresult).segments = <<>>
       /\ Val(dresult).item = Len(synths)

\* the second of three syntheses failed after the first had returned: the
\* call threw and made no third synthesis
C39_Witness ==
  /\ Len(dialogue) = 3 /\ dpc = "threw"
  /\ Len(synths) = 2 /\ synths[1].st = "returned" /\ synths[2].st = "threw"
  /\ Len(segments) = 1 /\ Val(dresult).st = "threw"

-----------------------------------------------------------------------------
(* The 'error' listeners of ReceiveMessage *)

\* C40: while the socket is open, the 'error' listeners that ReceiveMessage
\* registered are those of the pending waiters, one each: the resolver of a
\* waiter removes its errorHandler.  An 'error' event therefore rejects
\* exactly the calls that were waiting, leaves a call that was resolved
\* before it as it was, and takes out of callbacks only the resolvers whose
\* errorHandler ran.
C40_ErrorListenersMatchWaiters ==
  [][ /\ wsOpen' =>
           /\ Len(errListeners') = Len(callbacks')
           /\ Range(errListeners') = Range(callbacks')
      /\ errors' = errors + 1 =>
           /\ \A k \in 1 .. Len(calls) :
                /\ calls[k].st = "resolved" => calls'[k] = calls[k]
                /\ (calls'[k].st = "rejected" /\ calls[k].st # "rejected") =>
                     k \in Range(callbacks)
           /\ callbacks' = SelectSeq(callbacks, LAMBDA r : r \notin Range(errListeners))
    ]_vars

\* the first call waited and was resolved by the one frame that arrived; the
\* 'error' event after it rejected the second call and left the first
\* resolved
C40_Witness ==
  /\ wsOpen /\ Len(arrived) = 1 /\ errors = 1
  /\ Len(calls) >= 2
  /\ calls[1].st = "resolved" /\ calls[1].msg = unmarshalMessage(arrived[1]).msg
  /\ calls[2].st = "rejected"
  /\ errListeners = <<>> /\ callbacks = <<>>

====
